---- MODULE Spec2Model ----
(***************************************************************************)
(* MapVibe: the layer and interaction controller of MapVibeApp             *)
(* (src/src/lib.tsx).  The rendering engine (maplibre-gl) is represented   *)
(* by the registers the controller reads and writes: layout visibility per *)
(* style layer, min/max zoom, camera zoom, the image registry and the      *)
(* cursor.                                                                 *)
(***************************************************************************)
EXTENDS Integers, Sequences, FiniteSets, TLC

\* ------------------------------------------------------------------ bounds
\* Zoom levels are 0..MaxZoom.
MaxZoom == 2
\* loadImage calls issued per icon id.
MaxLoads == 2
\* Features under one pointer position.
MaxHits == 2
\* Longest imageSize attribute enumerated character by character.
MaxAttrLen == 3

\* ------------------------------------------------------- values and helpers
\* An optional number that is absent (globalMinZoom?: number).
Undef == -1
\* An optional string attribute that is absent.
undefined == "undefined"
\* No feature has been shown yet.
NoFeature == [shown |-> FALSE]

ZoomLevels == 0..MaxZoom
ZoomOpt == {Undef} \cup ZoomLevels

Max(a, b) == IF a >= b THEN a ELSE b
Min(a, b) == IF a <= b THEN a ELSE b
\* a ?? b
Coalesce(a, b) == IF a # Undef THEN a ELSE b
SeqToSet(s) == {s[i] : i \in 1..Len(s)}

\* ------------------------------------------------------------ configuration
BackgroundLayerIds == <<"bg1", "bg2">>
DataLayerIds == <<"trails", "pois">>
StyleLayerIds == {"bg1", "bg2", "trails-casing", "trails-line", "pois-symbol"}
SourceNames == {"bg1-src", "bg2-src", "trails-src", "pois-src"}
VisibilityValues == {"visible", "none", "unset"}

LayerSource(l) ==
    CASE l = "bg1" -> "bg1-src"
      [] l = "bg2" -> "bg2-src"
      [] l = "pois-symbol" -> "pois-src"
      [] OTHER -> "trails-src"

DataLayerLayerIds(d) ==
    IF d = "trails" THEN <<"trails-casing", "trails-line">> ELSE <<"pois-symbol">>

NoZoomRange == [minzoom |-> Undef, maxzoom |-> Undef]
ValidRange(r) == r.minzoom = Undef \/ r.maxzoom = Undef \/ r.minzoom <= r.maxzoom
\* Source definitions: minzoom / maxzoom each present or absent.
SourceDefs == {r \in [minzoom : ZoomOpt, maxzoom : ZoomOpt] : ValidRange(r)}

CustomImageResources ==
    << [id |-> "peak", url |-> "peak.png", pixelRatio |-> 2],
       [id |-> "hut", url |-> "hut.png", pixelRatio |-> Undef],
       [id |-> "nourl", url |-> "", pixelRatio |-> Undef] >>
\* Icon ids the style may ask for ("ghost" is in no resource table).
ImageIds == {"peak", "hut", "nourl", "ghost"}

\* The order in which "for (const sourceName in sources)" visits the sources.
SourceOrder == <<"bg1-src", "bg2-src", "trails-src", "pois-src">>
\* What a source declares: "url" is type 'geojson' with a string data, "inline"
\* is type 'geojson' with an object data, "raster" is any other type.
SourceKinds == {"raster", "url", "inline"}
BaseSourceKind ==
    [s \in SourceNames |-> IF s \in {"trails-src", "pois-src"} THEN "url" ELSE "raster"]

\* The GeoJSON documents a source's data can yield; a feature is its geometry.
Point(x, y) == [type |-> "Point", coordinates |-> <<x, y>>]
Documents ==
    << \* 1: three points
       << Point(0, 0), Point(1, 1), Point(-1, 2) >>,
       \* 2: a collection without features
       << >>,
       \* 3: a polygon whose second ring reaches beyond its first
       << [type |-> "Polygon",
           coordinates |-> << << <<0, 0>>, <<2, 0>>, <<2, 2>>, <<0, 0>> >>,
                              << <<1, 1>>, <<3, 1>>, <<1, -2>>, <<1, 1>> >> >>] >>,
       \* 4: a line and a feature whose geometry is null
       << [type |-> "LineString", coordinates |-> << <<-2, -1>>, <<0, 3>> >>],
          [type |-> "null", coordinates |-> << >>] >>,
       \* 5: a point and a multi-point
       << Point(0, 0),
          [type |-> "MultiPoint", coordinates |-> << <<-3, 0>>, <<4, 1>> >>] >>,
       \* 6: a multi-line and a multi-polygon
       << [type |-> "MultiLineString",
           coordinates |-> << << <<0, 0>>, <<1, 0>> >>, << <<0, -4>>, <<0, 1>> >> >>],
          [type |-> "MultiPolygon",
           coordinates |-> << << << <<0, 0>>, <<1, 0>>, <<1, 1>>, <<0, 0>> >> >>,
                              << << <<5, 0>>, <<6, 0>>, <<6, 5>>, <<5, 0>> >> >> >>] >> >>
\* The document a data URL yields, 0 when the fetch or its parsing fails.
DocumentIds == 0..Len(Documents)
BaseGeojsonAt ==
    [s \in SourceNames |-> IF s = "trails-src" THEN 4 ELSE IF s = "pois-src" THEN 1 ELSE 2]

\* A configuration document as fetched (AppConfig).
BaseConfig ==
    [ center |-> FALSE,
      zoom |-> Undef,
      bounds |-> FALSE,
      sources |-> [s \in SourceNames |-> NoZoomRange],
      sourceKind |-> BaseSourceKind,
      iconImage |-> [l \in StyleLayerIds |-> IF l = "pois-symbol" THEN "peak" ELSE ""],
      layers |-> [l \in StyleLayerIds |->
                    [source |-> LayerSource(l),
                     visibility |-> IF l = "bg2" THEN "none" ELSE "unset"]],
      customUi |->
        [ backgroundLayers |-> BackgroundLayerIds,
          dataLayers |-> [i \in 1..Len(DataLayerIds) |->
                            [id |-> DataLayerIds[i],
                             layerIds |-> DataLayerLayerIds(DataLayerIds[i]),
                             interactive |-> TRUE]],
          globalMinZoom |-> Undef,
          globalMaxZoom |-> Undef ],
      customImageResources |-> CustomImageResources ]

VARIABLES
    config,                   \* the configuration held in React state
    selectedBackgroundLayer,  \* useState<string>('')
    visibleDataLayers,        \* useState<Set<string>>
    layerChooserVisible,      \* useState(false)
    infoPanelVisible,         \* useState(false)
    infoPanelData,            \* useState<InfoPanelData>({})
    featureProperties,        \* onMapClick: the properties of the feature last shown
    layoutVisibility,         \* engine: layout 'visibility' of each style layer
    mapMinZoom,               \* engine: setMinZoom / getMinZoom
    mapMaxZoom,               \* engine: setMaxZoom / getMaxZoom
    mapZoom,                  \* engine: getZoom / zoomTo
    mapLoaded,                \* the map's 'load' event has been handled
    fitPending,               \* fitMapToBounds is awaiting its geometries
    cursor,                   \* engine: canvas style.cursor
    mapImages,                \* engine: registered images (hasImage / addImage)
    inFlight,                 \* loadImage promises not yet settled, per icon id
    loadImageCalls,           \* loadImage calls issued, per icon id
    addImageCalls,            \* addImage calls made, per icon id
    loadErrors,               \* console.error reports of failed loads, per icon id
    geojsonAt,                \* the document each source's data yields (0: it fails)
    fitBoundsCalls,           \* engine: the bounds passed to fitBounds, in order
    fitErrors,                \* console.error reports of fitMapToBounds
    resident,                 \* engine: the sources whose getData() yields an object
    fetchCalls,               \* fetch(source.data) calls issued, per source
    configUrl,                \* the 'config' URL parameter ("" when missing)
    configFetch,              \* fetch(configUrl): "idle", "pending", "ok" or "failed"
    error,                    \* useState<string | null>(null), "" for null
    mapCreated,               \* the Map component has mounted and created the map
    layerIcon,                \* engine: layout 'icon-image' of each style layer
    iconsSwapped,             \* main.ts: the load handler swapped the icons back
    imagesLoadedPromise,      \* main.ts: "none", "pending", "resolved" or "rejected"
    loadHandler               \* main.ts: where the async load handler stands

uiVars == <<layerChooserVisible, infoPanelVisible, infoPanelData, featureProperties>>
layerVars == <<selectedBackgroundLayer, visibleDataLayers, layoutVisibility>>
zoomVars == <<mapMinZoom, mapMaxZoom, mapZoom>>
loadVars == <<mapLoaded, fitPending>>
imageVars == <<mapImages, inFlight, loadImageCalls, addImageCalls, loadErrors>>
fitVars == <<geojsonAt, fitBoundsCalls, fitErrors, resident, fetchCalls>>
startVars == <<configUrl, configFetch, error, mapCreated>>
eagerVars == <<layerIcon, iconsSwapped, imagesLoadedPromise, loadHandler>>
\* What the handlers of the running map never write.
sessionVars == <<eagerVars, fitVars, startVars>>
vars == <<config, selectedBackgroundLayer, visibleDataLayers, layerChooserVisible,
          infoPanelVisible, infoPanelData, featureProperties, layoutVisibility, mapMinZoom, mapMaxZoom,
          mapZoom, mapLoaded, fitPending, cursor, mapImages, inFlight,
          loadImageCalls, addImageCalls, loadErrors, geojsonAt, fitBoundsCalls,
          fitErrors, resident, fetchCalls, configUrl, configFetch, error, mapCreated, layerIcon,
          iconsSwapped, imagesLoadedPromise, loadHandler>>

\* ------------------------------------------------------- helper functions
EmptyLayer == [source |-> undefined, visibility |-> "unset"]

findLayerWithId(layerId, cfg) ==
    IF layerId \in DOMAIN cfg.layers THEN cfg.layers[layerId] ELSE EmptyLayer

\* config.sources && config.sources[sourceName] ? config.sources[sourceName] : {}
SourceDefOf(layerId, cfg) ==
    LET sourceName == findLayerWithId(layerId, cfg).source
    IN  IF sourceName \in DOMAIN cfg.sources THEN cfg.sources[sourceName] ELSE NoZoomRange

getClampedZoomBounds_NoClamp(sourceDef, chooserConfig) ==
    [ minZoom |-> Coalesce(sourceDef.minzoom, chooserConfig.globalMinZoom),
      maxZoom |-> Coalesce(sourceDef.maxzoom, chooserConfig.globalMaxZoom) ]

getClampedZoomBounds(sourceDef, chooserConfig) ==
    LET minZoom0 == IF sourceDef.minzoom # Undef THEN sourceDef.minzoom
                    ELSE chooserConfig.globalMinZoom
        maxZoom0 == IF sourceDef.maxzoom # Undef THEN sourceDef.maxzoom
                    ELSE chooserConfig.globalMaxZoom
        minZoom == IF chooserConfig.globalMinZoom # Undef
                   THEN Max(Coalesce(minZoom0, chooserConfig.globalMinZoom),
                            chooserConfig.globalMinZoom)
                   ELSE minZoom0
        maxZoom == IF chooserConfig.globalMaxZoom # Undef
                   THEN Min(Coalesce(maxZoom0, chooserConfig.globalMaxZoom),
                            chooserConfig.globalMaxZoom)
                   ELSE maxZoom0
    IN  [minZoom |-> minZoom, maxZoom |-> maxZoom]

\* The layers of config.layers that the raw configuration does not hide.
ConfigVisible(layerId, cfg) ==
    /\ layerId \in DOMAIN cfg.layers
    /\ cfg.layers[layerId].visibility # "none"

\* initializeApp: the first declared background whose layer is not hidden, or ''.
DefaultBackground_Last(cfg) ==
    LET bgs == cfg.customUi.backgroundLayers
        hits == {i \in 1..Len(bgs) : ConfigVisible(bgs[i], cfg)}
    IN  IF hits = {} THEN ""
        ELSE bgs[CHOOSE i \in hits : \A j \in hits : i >= j]

DefaultBackground(cfg) ==
    LET bgs == cfg.customUi.backgroundLayers
        hits == {i \in 1..Len(bgs) : ConfigVisible(bgs[i], cfg)}
    IN  IF hits = {} THEN ""
        ELSE bgs[CHOOSE i \in hits : \A j \in hits : i <= j]

InitialVisibleData_UnknownShown(cfg) ==
    {cfg.customUi.dataLayers[i].id : i \in
        {k \in 1..Len(cfg.customUi.dataLayers) :
            \E n \in 1..Len(cfg.customUi.dataLayers[k].layerIds) :
                \/ cfg.customUi.dataLayers[k].layerIds[n] \notin DOMAIN cfg.layers
                \/ ConfigVisible(cfg.customUi.dataLayers[k].layerIds[n], cfg)}}

InitialVisibleData_Every(cfg) ==
    {cfg.customUi.dataLayers[i].id : i \in
        {k \in 1..Len(cfg.customUi.dataLayers) :
            \A n \in 1..Len(cfg.customUi.dataLayers[k].layerIds) :
                ConfigVisible(cfg.customUi.dataLayers[k].layerIds[n], cfg)}}

\* initializeApp: the data layers with some referenced layer not hidden.
InitialVisibleData(cfg) ==
    {cfg.customUi.dataLayers[i].id : i \in
        {k \in 1..Len(cfg.customUi.dataLayers) :
            \E n \in 1..Len(cfg.customUi.dataLayers[k].layerIds) :
                ConfigVisible(cfg.customUi.dataLayers[k].layerIds[n], cfg)}}

\* The engine renders a layer unless its layout visibility is 'none'.
StyleVisibility(cfg) ==
    [l \in DOMAIN cfg.layers |->
        IF cfg.layers[l].visibility = "none" THEN "none" ELSE "visible"]

\* new maplibregl.Map({ center, zoom, bounds }): the camera a configuration gives.
InitialZooms(cfg) ==
    IF cfg.bounds THEN ZoomLevels
    ELSE IF cfg.zoom # Undef THEN {cfg.zoom}
    ELSE {0}

\* ------------------------------------------------------------------- Init
InitEngine(cfg, geo, res) ==
    /\ config = cfg
    /\ selectedBackgroundLayer = DefaultBackground(cfg)
    /\ visibleDataLayers = InitialVisibleData(cfg)
    /\ layerChooserVisible = FALSE
    /\ infoPanelVisible = FALSE
    /\ featureProperties = NoFeature
    /\ infoPanelData = [title |-> undefined, description |-> undefined,
                        imageUrl |-> undefined, imageSize |-> <<>>]
    /\ layoutVisibility = StyleVisibility(cfg)
    /\ mapMinZoom = Undef
    /\ mapMaxZoom = Undef
    /\ mapZoom \in InitialZooms(cfg)
    /\ mapLoaded = FALSE
    /\ fitPending = FALSE
    /\ cursor = ""
    /\ mapImages = {}
    /\ inFlight = [i \in ImageIds |-> 0]
    /\ loadImageCalls = [i \in ImageIds |-> 0]
    /\ addImageCalls = [i \in ImageIds |-> 0]
    /\ loadErrors = [i \in ImageIds |-> 0]
    /\ geojsonAt = geo
    /\ fitBoundsCalls = << >>
    /\ fitErrors = 0
    /\ resident = res
    /\ fetchCalls = [s \in SourceNames |-> 0]
    /\ configUrl = "config.json"
    /\ configFetch = "ok"
    /\ error = ""
    /\ mapCreated = TRUE
    /\ layerIcon = cfg.iconImage
    /\ iconsSwapped = FALSE
    /\ imagesLoadedPromise = "none"
    /\ loadHandler = "idle"

\* No source is resident: every collected source is fetched.
InitState(cfg, geo) == InitEngine(cfg, geo, {})

InitWith(cfg) == InitState(cfg, BaseGeojsonAt)

\* ------------------------------------------------- background layer change
\* config.customUi.backgroundLayers.forEach(setLayoutProperty(...))
BackgroundVisibility_KeepOthers(layerId) ==
    [l \in DOMAIN layoutVisibility |->
        IF l = layerId THEN "visible" ELSE layoutVisibility[l]]

BackgroundVisibility(layerId) ==
    [l \in DOMAIN layoutVisibility |->
        IF l \in SeqToSet(config.customUi.backgroundLayers)
        THEN (IF l = layerId THEN "visible" ELSE "none")
        ELSE layoutVisibility[l]]

\* The background whose source the new zoom constraints are resolved from.
ZoomSourceLayer_Previous(layerId) ==
    IF selectedBackgroundLayer # "" THEN selectedBackgroundLayer ELSE layerId

ZoomSourceLayer(layerId) == layerId

\* if (maxZoom !== undefined && currentZoom > maxZoom) zoomTo(maxZoom)
\* else if (minZoom !== undefined && currentZoom < minZoom) zoomTo(minZoom)
SnapZoom(currentZoom, b) ==
    IF b.maxZoom # Undef /\ currentZoom > b.maxZoom THEN b.maxZoom
    ELSE IF b.minZoom # Undef /\ currentZoom < b.minZoom THEN b.minZoom
    ELSE currentZoom

\* The visibility writes alone, the zoom writes left to a later turn.
handleBackgroundLayerChange_ZoomLater(layerId) ==
    /\ selectedBackgroundLayer' = layerId
    /\ layerChooserVisible' = FALSE
    /\ layoutVisibility' = BackgroundVisibility(layerId)
    /\ UNCHANGED <<config, sessionVars, visibleDataLayers, infoPanelVisible,
                   infoPanelData, featureProperties,
                   zoomVars, loadVars, cursor, imageVars>>

\* The handler runs from its first statement to its last in one turn of the
\* event loop: it awaits nothing.
handleBackgroundLayerChange(layerId) ==
    LET b == getClampedZoomBounds(SourceDefOf(ZoomSourceLayer(layerId), config),
                                  config.customUi)
    IN  /\ selectedBackgroundLayer' = layerId
        /\ layerChooserVisible' = FALSE
        /\ layoutVisibility' = BackgroundVisibility(layerId)
        /\ mapMinZoom' = b.minZoom
        /\ mapMaxZoom' = b.maxZoom
        /\ mapZoom' = SnapZoom(mapZoom, b)
        /\ UNCHANGED <<config, sessionVars, visibleDataLayers, infoPanelVisible,
                       infoPanelData, featureProperties,
                       loadVars, cursor, imageVars>>

\* LayerChooser: the radio of a background that is not the checked one.
BackgroundRadioChange ==
    /\ mapCreated
    /\ \E i \in 1..Len(config.customUi.backgroundLayers) :
        /\ layerChooserVisible
        /\ config.customUi.backgroundLayers[i] # selectedBackgroundLayer
        /\ handleBackgroundLayerChange(config.customUi.backgroundLayers[i])

\* ------------------------------------------------------- data layer toggle
DataLayerConfig(dataLayerId) ==
    LET hits == {i \in 1..Len(config.customUi.dataLayers) :
                    config.customUi.dataLayers[i].id = dataLayerId}
    IN  IF hits = {} THEN [id |-> dataLayerId, layerIds |-> <<>>, interactive |-> FALSE]
        ELSE config.customUi.dataLayers[CHOOSE i \in hits : \A j \in hits : i <= j]

ToggledLayers_FirstOnly(dataLayerId) ==
    LET ids == DataLayerConfig(dataLayerId).layerIds
    IN  IF ids = <<>> THEN {} ELSE {ids[1]}

\* dataLayer.layerIds.forEach(...)
ToggledLayers(dataLayerId) == SeqToSet(DataLayerConfig(dataLayerId).layerIds)

handleDataLayerToggle_Exclusive(dataLayerId, visible) ==
    /\ visibleDataLayers' = IF visible THEN {dataLayerId}
                            ELSE visibleDataLayers \ {dataLayerId}
    /\ layoutVisibility' =
         [l \in DOMAIN layoutVisibility |->
            IF l \in ToggledLayers(dataLayerId)
            THEN (IF visible THEN "visible" ELSE "none")
            ELSE layoutVisibility[l]]
    /\ UNCHANGED <<config, sessionVars, selectedBackgroundLayer, uiVars, zoomVars,
                   loadVars,
                   cursor, imageVars>>

handleDataLayerToggle(dataLayerId, visible) ==
    /\ visibleDataLayers' = IF visible THEN visibleDataLayers \cup {dataLayerId}
                            ELSE visibleDataLayers \ {dataLayerId}
    /\ layoutVisibility' =
         [l \in DOMAIN layoutVisibility |->
            IF l \in ToggledLayers(dataLayerId)
            THEN (IF visible THEN "visible" ELSE "none")
            ELSE layoutVisibility[l]]
    /\ UNCHANGED <<config, sessionVars, selectedBackgroundLayer, uiVars, zoomVars,
                   loadVars,
                   cursor, imageVars>>

\* LayerChooser: a checkbox reports the negation of its checked state.
DataLayerCheckboxChange ==
    /\ mapCreated
    /\ \E i \in 1..Len(config.customUi.dataLayers) :
        LET d == config.customUi.dataLayers[i].id
        IN  /\ layerChooserVisible
            /\ handleDataLayerToggle(d, d \notin visibleDataLayers)

\* ------------------------------------------------------------ layer chooser
LayerChooserToggle_KeepPanel ==
    /\ mapCreated
    /\ layerChooserVisible' = ~layerChooserVisible
    /\ UNCHANGED <<config, sessionVars, layerVars, infoPanelVisible, infoPanelData, featureProperties,
                   zoomVars, loadVars, cursor, imageVars>>

LayerChooserToggle ==
    /\ mapCreated
    /\ layerChooserVisible' = ~layerChooserVisible
    /\ infoPanelVisible' = FALSE
    /\ UNCHANGED <<config, sessionVars, layerVars, infoPanelData, featureProperties, zoomVars, loadVars,
                   cursor,
                   imageVars>>

\* ------------------------------------------------------------- zoom control
\* NavigationControl / gestures: the engine keeps the camera within its limits.
ZoomControl ==
    \E z \in ZoomLevels :
        /\ z # mapZoom
        /\ mapMinZoom = Undef \/ z >= mapMinZoom
        /\ mapMaxZoom = Undef \/ z <= mapMaxZoom
        /\ mapZoom' = z
        /\ UNCHANGED <<config, sessionVars, layerVars, uiVars, mapMinZoom,
                       mapMaxZoom, loadVars,
                       cursor, imageVars>>

\* ------------------------------------------------------------------ map load
\* (!(config.center && config.zoom) && !config.bounds) && config.sources
AutoFit(cfg) == ~(cfg.center /\ cfg.zoom # Undef /\ cfg.zoom # 0) /\ ~cfg.bounds

\* fitMapToBounds visits every source once: a string-data geojson source whose
\* engine source hands back an object from getData() contributes that object,
\* any other string-data geojson source gets fetch(source.data).
NeedsFetch_Always(cfg, s) == cfg.sourceKind[s] = "url"
NeedsFetch(cfg, s) == cfg.sourceKind[s] = "url" /\ s \notin resident
IssueFetches(cfg) ==
    [s \in SourceNames |-> fetchCalls[s] + (IF NeedsFetch(cfg, s) THEN 1 ELSE 0)]

\* The handler registered at mount closes over the default background.
onMapLoad ==
    /\ mapCreated
    /\ ~mapLoaded
    /\ LET bg == DefaultBackground(config)
           b == getClampedZoomBounds(SourceDefOf(bg, config), config.customUi)
       IN  IF bg # ""
           THEN mapMinZoom' = b.minZoom /\ mapMaxZoom' = b.maxZoom
           ELSE UNCHANGED <<mapMinZoom, mapMaxZoom>>
    /\ mapLoaded' = TRUE
    /\ fitPending' = AutoFit(config)
    /\ fetchCalls' = IF AutoFit(config) THEN IssueFetches(config) ELSE fetchCalls
    /\ UNCHANGED <<config, eagerVars, startVars, geojsonAt, fitBoundsCalls, fitErrors,
                   resident, layerVars, uiVars, mapZoom, cursor, imageVars>>

\* ------------------------------------------------------------ fitMapToBounds
\* new LngLatBounds()
EmptyBounds == [empty |-> TRUE, west |-> 0, south |-> 0, east |-> 0, north |-> 0]
isEmpty(bounds) == bounds.empty

\* LngLatBounds.extend(coord)
extend(bounds, coord) ==
    IF bounds.empty
    THEN [empty |-> FALSE, west |-> coord[1], south |-> coord[2],
          east |-> coord[1], north |-> coord[2]]
    ELSE [empty |-> FALSE,
          west |-> Min(bounds.west, coord[1]), south |-> Min(bounds.south, coord[2]),
          east |-> Max(bounds.east, coord[1]), north |-> Max(bounds.north, coord[2])]

\* coords.forEach(coord => bounds.extend(coord))
RECURSIVE ExtendCoords(_, _)
ExtendCoords(bounds, coords) ==
    IF coords = << >> THEN bounds
    ELSE ExtendCoords(extend(bounds, Head(coords)), Tail(coords))

\* rings.forEach(ring => ring.forEach(coord => bounds.extend(coord)))
RECURSIVE ExtendRings(_, _)
ExtendRings(bounds, rings) ==
    IF rings = << >> THEN bounds
    ELSE ExtendRings(ExtendCoords(bounds, Head(rings)), Tail(rings))

ExtendFeature_OuterRing(bounds, feature) ==
    IF feature.type = "null" THEN bounds
    ELSE IF feature.type = "Point" THEN extend(bounds, feature.coordinates)
    ELSE IF feature.type = "LineString" THEN ExtendCoords(bounds, feature.coordinates)
    ELSE IF feature.type = "Polygon" THEN ExtendCoords(bounds, feature.coordinates[1])
    ELSE bounds

\* The body of geojson.features.forEach: one feature's geometry, by its type.
ExtendFeature(bounds, feature) ==
    IF feature.type = "null" THEN bounds
    ELSE IF feature.type = "Point" THEN extend(bounds, feature.coordinates)
    ELSE IF feature.type = "LineString" THEN ExtendCoords(bounds, feature.coordinates)
    ELSE IF feature.type = "Polygon" THEN ExtendRings(bounds, feature.coordinates)
    ELSE bounds

RECURSIVE ExtendFeatures(_, _)
ExtendFeatures(bounds, features) ==
    IF features = << >> THEN bounds
    ELSE ExtendFeatures(ExtendFeature(bounds, Head(features)), Tail(features))

\* A fresh bounds object for each document: only the last one is kept.
ExtendDocuments_PerSource(bounds, docs) ==
    IF docs = << >> THEN bounds
    ELSE ExtendFeatures(EmptyBounds, Documents[docs[Len(docs)]])

\* geojsons.forEach(...): the documents in the order their sources were visited.
RECURSIVE ExtendDocuments(_, _)
ExtendDocuments(bounds, docs) ==
    IF docs = << >> THEN bounds
    ELSE ExtendDocuments(ExtendFeatures(bounds, Documents[Head(docs)]), Tail(docs))

\* The sources fitMapToBounds collects a geometry for, in visiting order.
IsCollected(cfg, s) == cfg.sourceKind[s] = "url"
RECURSIVE CollectFrom(_, _)
CollectFrom(cfg, names) ==
    IF names = << >> THEN << >>
    ELSE IF IsCollected(cfg, Head(names))
         THEN <<Head(names)>> \o CollectFrom(cfg, Tail(names))
         ELSE CollectFrom(cfg, Tail(names))
geojsonFetches(cfg) == CollectFrom(cfg, SourceOrder)

\* await Promise.all(geojsonFetches) rejects as soon as one of them does.
PromiseAllRejects(fetches) == \E i \in 1..Len(fetches) : geojsonAt[fetches[i]] = 0

FitsWhen_Always(bounds) == TRUE
\* if (!bounds.isEmpty()) map.fitBounds(...)
FitsWhen(bounds) == ~isEmpty(bounds)

\* fitMapToBounds after its await.  When Promise.all rejects the catch logs and
\* nothing else happens; otherwise the envelope is computed and, when it is not
\* empty, passed to fitBounds, which moves the camera within the zoom limits.
fitMapToBoundsSettle ==
    /\ fitPending
    /\ fitPending' = FALSE
    /\ LET fetches == geojsonFetches(config)
           bounds == ExtendDocuments(EmptyBounds,
                                     [i \in 1..Len(fetches) |-> geojsonAt[fetches[i]]])
       IN  IF PromiseAllRejects(fetches)
           THEN /\ fitErrors' = fitErrors + 1
                /\ UNCHANGED <<fitBoundsCalls, mapZoom>>
           ELSE /\ UNCHANGED fitErrors
                /\ IF FitsWhen(bounds)
                   THEN /\ fitBoundsCalls' = Append(fitBoundsCalls, bounds)
                        /\ \E z \in ZoomLevels :
                              /\ mapMinZoom = Undef \/ z >= mapMinZoom
                              /\ mapMaxZoom = Undef \/ z <= mapMaxZoom
                              /\ mapZoom' = z
                   ELSE UNCHANGED <<fitBoundsCalls, mapZoom>>
    /\ UNCHANGED <<config, eagerVars, startVars, geojsonAt, resident, fetchCalls,
                   layerVars, uiVars,
                   mapMinZoom, mapMaxZoom,
                   mapLoaded, cursor, imageVars>>

\* ------------------------------------------------------ feature attributes
DigitChars == <<"0", "1", "2", "3", "4", "5", "6", "7", "8", "9">>
IsDigit(c) == \E i \in 1..Len(DigitChars) : DigitChars[i] = c
DigitValue(c) == (CHOOSE i \in 1..Len(DigitChars) : DigitChars[i] = c) - 1

\* String.prototype.trim
RECURSIVE TrimLeft(_)
TrimLeft(s) == IF s # <<>> /\ Head(s) = " " THEN TrimLeft(Tail(s)) ELSE s
RECURSIVE TrimRight(_)
TrimRight(s) ==
    IF s # <<>> /\ s[Len(s)] = " " THEN TrimRight(SubSeq(s, 1, Len(s) - 1)) ELSE s
Trim(s) == TrimRight(TrimLeft(s))

\* String.prototype.split(',')
RECURSIVE Split(_)
Split(s) ==
    LET commas == {i \in 1..Len(s) : s[i] = ","}
    IN  IF commas = {} THEN <<s>>
        ELSE LET i == CHOOSE k \in commas : \A j \in commas : k <= j
             IN  <<SubSeq(s, 1, i - 1)>> \o Split(SubSeq(s, i + 1, Len(s)))

\* The value of the longest prefix of digits.
RECURSIVE DigitsPrefix(_, _)
DigitsPrefix(s, acc) ==
    IF s # <<>> /\ IsDigit(Head(s))
    THEN DigitsPrefix(Tail(s), acc * 10 + DigitValue(Head(s)))
    ELSE acc

NaN == [nan |-> TRUE, n |-> 0]
\* parseInt(s, 10)
parseInt(str) ==
    LET s == TrimLeft(str)
        neg == s # <<>> /\ Head(s) = "-"
        body == IF s # <<>> /\ Head(s) \in {"-", "+"} THEN Tail(s) ELSE s
    IN  IF body = <<>> \/ ~IsDigit(Head(body)) THEN NaN
        ELSE [nan |-> FALSE,
              n |-> IF neg THEN 0 - DigitsPrefix(body, 0) ELSE DigitsPrefix(body, 0)]

\* A feature attribute that may be absent.
Prop(properties, key) ==
    IF key \in DOMAIN properties THEN properties[key] ELSE undefined

ParseImageSize_FirstTwo(properties) ==
    IF "imageSize" \in DOMAIN properties /\ properties.imageSize.type = "string"
    THEN LET raw == Split(properties.imageSize.chars)
             parts == [i \in 1..Len(raw) |-> parseInt(Trim(raw[i]))]
         IN  IF Len(parts) >= 2 /\ ~parts[1].nan /\ ~parts[2].nan
             THEN <<parts[1].n, parts[2].n>>
             ELSE <<>>
    ELSE <<>>

\* onMapClick: the [W, H] parsed from the imageSize attribute, <<>> for undefined.
ParseImageSize(properties) ==
    IF "imageSize" \in DOMAIN properties /\ properties.imageSize.type = "string"
    THEN LET raw == Split(properties.imageSize.chars)
             parts == [i \in 1..Len(raw) |-> parseInt(Trim(raw[i]))]
         IN  IF Len(parts) = 2 /\ ~parts[1].nan /\ ~parts[2].nan
             THEN <<parts[1].n, parts[2].n>>
             ELSE <<>>
    ELSE <<>>

Str(chars) == [type |-> "string", chars |-> chars]

\* The features the engine may render (layer and GeoJSON properties).
Features ==
    << [layer |-> "pois-symbol",
        properties |-> [title |-> "Summit", description |-> "<b>3000 m</b>",
                        imageUrl |-> "summit.jpg",
                        imageSize |-> Str(<<"4", ",", " ", "3">>)]],
       [layer |-> "pois-symbol", properties |-> [title |-> "Hut"]],
       [layer |-> "trails-line",
        properties |-> [description |-> "Ridge trail", imageUrl |-> "ridge.jpg",
                        imageSize |-> Str(<<"1", "6", "x", "9">>)]],
       [layer |-> "bg1", properties |-> [title |-> "Tile"]],
       [layer |-> "pois-symbol", properties |-> [name |-> "Cairn"]] >>

\* What lies under a pointer position, topmost first.
Distinct(s) == \A i, j \in 1..Len(s) : i # j => s[i] # s[j]
RenderedAt ==
    UNION {{s \in [1..n -> 1..Len(Features)] : Distinct(s)} : n \in 0..MaxHits}

getClickableLayerIds_All(cfg) ==
    UNION {SeqToSet(cfg.customUi.dataLayers[i].layerIds) :
            i \in 1..Len(cfg.customUi.dataLayers)}

getClickableLayerIds(cfg) ==
    UNION {SeqToSet(cfg.customUi.dataLayers[i].layerIds) :
            i \in {k \in 1..Len(cfg.customUi.dataLayers) :
                      cfg.customUi.dataLayers[k].interactive}}

\* map.queryRenderedFeatures(point, { layers }): the rendered features of the
\* named layers, in the engine's order.
queryRenderedFeatures(rendered, layers) ==
    LET Shown(i) == /\ Features[i].layer \in layers
                    /\ layoutVisibility[Features[i].layer] = "visible"
    IN  SelectSeq(rendered, Shown)

\* const feature = features[0]
PickedFeature(features) == Features[features[1]]

\* The record onMapClick hands to setInfoPanelData.
PanelRecord_Merge(properties) ==
    [ title |-> IF "title" \in DOMAIN properties THEN properties.title
                ELSE infoPanelData.title,
      description |-> IF "description" \in DOMAIN properties THEN properties.description
                      ELSE infoPanelData.description,
      imageUrl |-> IF "imageUrl" \in DOMAIN properties THEN properties.imageUrl
                   ELSE infoPanelData.imageUrl,
      imageSize |-> IF "imageSize" \in DOMAIN properties THEN ParseImageSize(properties)
                    ELSE infoPanelData.imageSize ]

PanelRecord(properties) ==
    [ title |-> Prop(properties, "title"),
      description |-> Prop(properties, "description"),
      imageUrl |-> Prop(properties, "imageUrl"),
      imageSize |-> ParseImageSize(properties) ]

onMapClick_KeepChooser(rendered) ==
    LET features == queryRenderedFeatures(rendered, getClickableLayerIds(config))
    IN  IF Len(features) = 0
        THEN /\ layerChooserVisible' = FALSE
             /\ infoPanelVisible' = FALSE
             /\ UNCHANGED <<config, sessionVars, layerVars, infoPanelData, featureProperties, zoomVars,
                            loadVars, cursor, imageVars>>
        ELSE /\ infoPanelData' = PanelRecord(PickedFeature(features).properties)
             /\ featureProperties' = PickedFeature(features).properties
             /\ infoPanelVisible' = TRUE
             /\ UNCHANGED <<config, sessionVars, layerVars, layerChooserVisible,
                            zoomVars, loadVars, cursor, imageVars>>

onMapClick(rendered) ==
    LET features == queryRenderedFeatures(rendered, getClickableLayerIds(config))
    IN  /\ layerChooserVisible' = FALSE
        /\ IF Len(features) = 0
           THEN /\ infoPanelVisible' = FALSE
                /\ UNCHANGED <<infoPanelData, featureProperties>>
           ELSE /\ infoPanelData' = PanelRecord(PickedFeature(features).properties)
                /\ featureProperties' = PickedFeature(features).properties
                /\ infoPanelVisible' = TRUE
        /\ UNCHANGED <<config, sessionVars, layerVars, zoomVars, loadVars, cursor,
                       imageVars>>

MapClick == \E rendered \in RenderedAt : onMapClick(rendered)

\* onMapClick when the hit test's first feature carries these properties.
onMapClickOn(properties) ==
    /\ layerChooserVisible' = FALSE
    /\ infoPanelData' = PanelRecord(properties)
    /\ featureProperties' = properties
    /\ infoPanelVisible' = TRUE
    /\ UNCHANGED <<config, sessionVars, layerVars, zoomVars, loadVars, cursor,
                   imageVars>>

\* The imageSize attributes a clicked feature may carry: every string of at
\* most MaxAttrLen characters of the alphabet, some longer ones, and a number.
AttributeChars == {"4", ",", " ", "x"}
AttributeStrings ==
    UNION {[1..n -> AttributeChars] : n \in 0..MaxAttrLen}
      \cup {<<"4", ",", " ", "3">>, <<" ", "4", " ", ",", "3", " ">>,
            <<"4", ",", "3", ",", "2">>, <<"1", "6", "x", "9">>,
            <<"4", "p", "x", ",", "3">>, <<"-", "4", ",", "+", "3">>,
            <<"4", ",", "-">>, <<"1", "6", ",", "9">>}
ClickedProperties ==
    {[title |-> "Summit"], [title |-> "Summit", imageUrl |-> "summit.jpg"],
     [title |-> "Summit", imageUrl |-> "summit.jpg",
      imageSize |-> [type |-> "number", n |-> 2]]}
      \cup {[title |-> "Summit", imageUrl |-> "summit.jpg", imageSize |-> Str(chars)] :
              chars \in AttributeStrings}

FeatureClick == \E properties \in ClickedProperties : onMapClickOn(properties)

\* map.on('mousemove', ...), registered by onMapLoad
onMouseMove(rendered) ==
    /\ mapLoaded
    /\ cursor' = IF Len(queryRenderedFeatures(rendered,
                                              getClickableLayerIds(config))) > 0
                 THEN "pointer" ELSE ""
    /\ UNCHANGED <<config, sessionVars, layerVars, uiVars, zoomVars, loadVars,
                   imageVars>>

MouseMove == \E rendered \in RenderedAt : onMouseMove(rendered)

MapDrag ==
    /\ layerChooserVisible' = FALSE
    /\ UNCHANGED <<config, sessionVars, layerVars, infoPanelVisible, infoPanelData, featureProperties,
                   zoomVars,
                   loadVars, cursor, imageVars>>

MapDblClick_ShowAll ==
    /\ infoPanelVisible' = FALSE
    /\ layerChooserVisible' = FALSE
    /\ layoutVisibility' = [l \in DOMAIN layoutVisibility |-> "visible"]
    /\ UNCHANGED <<config, sessionVars, selectedBackgroundLayer, visibleDataLayers,
                   infoPanelData, featureProperties, zoomVars, loadVars, cursor, imageVars>>

MapDblClick ==
    /\ infoPanelVisible' = FALSE
    /\ layerChooserVisible' = FALSE
    /\ UNCHANGED <<config, sessionVars, layerVars, infoPanelData, featureProperties, zoomVars, loadVars,
                   cursor,
                   imageVars>>

\* InfoPanel onClose; the button exists while the panel is rendered.
InfoPanelClose ==
    /\ infoPanelVisible
    /\ infoPanelVisible' = FALSE
    /\ UNCHANGED <<config, sessionVars, layerVars, layerChooserVisible,
                   infoPanelData, featureProperties, zoomVars,
                   loadVars, cursor, imageVars>>

\* ----------------------------------------------------------- icon loading
\* customImages.find(img => img.id === imageId); url '' when there is none,
\* also when the configuration has no resource table.
ImageInfo(cfg, imageId) ==
    LET res == IF "customImageResources" \in DOMAIN cfg THEN cfg.customImageResources
               ELSE << >>
        hits == {i \in 1..Len(res) : res[i].id = imageId}
    IN  IF hits = {} THEN [id |-> imageId, url |-> "", pixelRatio |-> Undef]
        ELSE res[CHOOSE i \in hits : \A j \in hits : i <= j]

hasImage_Never(imageId) == FALSE
hasImage(imageId) == \E img \in mapImages : img.id = imageId

PixelRatio_Raw(imageInfo) == imageInfo.pixelRatio
\* imageInfo.pixelRatio || 1
PixelRatio(imageInfo) ==
    IF imageInfo.pixelRatio = Undef \/ imageInfo.pixelRatio = 0 THEN 1
    ELSE imageInfo.pixelRatio

\* loadCustomImageOnDemand up to its await: the engine reports a missing image.
StyleImageMissing ==
    \E imageId \in ImageIds :
        /\ loadImageCalls[imageId] < MaxLoads
        /\ IF ImageInfo(config, imageId).url = "" \/ hasImage(imageId)
           THEN UNCHANGED <<inFlight, loadImageCalls>>
           ELSE /\ inFlight' = [inFlight EXCEPT ![imageId] = @ + 1]
                /\ loadImageCalls' = [loadImageCalls EXCEPT ![imageId] = @ + 1]
        /\ UNCHANGED <<config, sessionVars, layerVars, uiVars, zoomVars, loadVars,
                       cursor,
                       mapImages, addImageCalls, loadErrors>>

\* After the await: is the loaded image handed to addImage?
RegistersLoaded_Unchecked(imageId) == TRUE

RegistersLoaded(imageId) == ~hasImage(imageId)

\* loadCustomImageOnDemand after its await: loadImage resolved.
LoadImageResolved ==
    \E imageId \in ImageIds :
        /\ inFlight[imageId] > 0
        /\ inFlight' = [inFlight EXCEPT ![imageId] = @ - 1]
        /\ IF RegistersLoaded(imageId)
           THEN /\ mapImages' = mapImages \cup
                      {[id |-> imageId,
                        pixelRatio |-> PixelRatio(ImageInfo(config, imageId))]}
                /\ addImageCalls' = [addImageCalls EXCEPT ![imageId] = @ + 1]
           ELSE UNCHANGED <<mapImages, addImageCalls>>
        /\ UNCHANGED <<config, sessionVars, layerVars, uiVars, zoomVars, loadVars,
                       cursor,
                       loadImageCalls, loadErrors>>

\* loadCustomImageOnDemand after its await: loadImage rejected (caught, logged).
LoadImageRejected ==
    \E imageId \in ImageIds :
        /\ inFlight[imageId] > 0
        /\ inFlight' = [inFlight EXCEPT ![imageId] = @ - 1]
        /\ loadErrors' = [loadErrors EXCEPT ![imageId] = @ + 1]
        /\ UNCHANGED <<config, sessionVars, layerVars, uiVars, zoomVars, loadVars,
                       cursor,
                       mapImages, loadImageCalls, addImageCalls>>

\* ------------------------------------------- eager icons with a placeholder
\* The standalone entry point (src/src/main.ts): icons are loaded at startup
\* while the layers that use them point to a placeholder.
PLACEHOLDER_ID == "placeholder-icon-sync"
PlaceholderImage == [id |-> PLACEHOLDER_ID, pixelRatio |-> 1]

\* new Set(config.customImageResources.map(img => img.id))
customImageIds(cfg) ==
    {cfg.customImageResources[i].id : i \in 1..Len(cfg.customImageResources)}

\* originalLayerIcons: the layers whose icon-image is a custom image id.
originalLayerIcons(cfg) ==
    {l \in DOMAIN cfg.iconImage : cfg.iconImage[l] \in customImageIds(cfg)}

RewrittenIcons_AnyIcon(cfg) ==
    [l \in DOMAIN cfg.iconImage |->
        IF cfg.iconImage[l] # "" THEN PLACEHOLDER_ID ELSE cfg.iconImage[l]]

\* The style handed to the map: custom icons replaced by the placeholder.
RewrittenIcons(cfg) ==
    [l \in DOMAIN cfg.iconImage |->
        IF l \in originalLayerIcons(cfg) THEN PLACEHOLDER_ID ELSE cfg.iconImage[l]]

\* loadCustomImagesFromConfig: the entries a load is started for.
EagerLoads(cfg) ==
    {cfg.customImageResources[i].id :
        i \in {k \in 1..Len(cfg.customImageResources) :
                  /\ cfg.customImageResources[k].id # ""
                  /\ cfg.customImageResources[k].url # ""}}

\* await Promise.all(imageLoadPromises), once imageId's promise has settled.
AllImagesSettled(imageId) == \A i \in ImageIds \ {imageId} : inFlight[i] = 0

\* One icon's load resolved: it is registered unless the id already is.
EagerImageLoaded ==
    \E imageId \in ImageIds :
        /\ imagesLoadedPromise = "pending"
        /\ inFlight[imageId] > 0
        /\ inFlight' = [inFlight EXCEPT ![imageId] = @ - 1]
        /\ IF ~hasImage(imageId)
           THEN /\ mapImages' = mapImages \cup
                      {[id |-> imageId,
                        pixelRatio |-> PixelRatio(ImageInfo(config, imageId))]}
                /\ addImageCalls' = [addImageCalls EXCEPT ![imageId] = @ + 1]
           ELSE UNCHANGED <<mapImages, addImageCalls>>
        /\ imagesLoadedPromise' =
             IF AllImagesSettled(imageId) THEN "resolved" ELSE imagesLoadedPromise
        /\ UNCHANGED <<config, fitVars, startVars, layerVars, uiVars, zoomVars,
                       loadVars,
                       cursor, loadImageCalls, loadErrors, layerIcon, iconsSwapped,
                       loadHandler>>

CatchesLoadError_Uncaught(imageId) == FALSE
\* try { ... } catch (error) { console.error(...) } around each icon's load.
CatchesLoadError(imageId) == TRUE

\* One icon's load rejected.
EagerImageFailed ==
    \E imageId \in ImageIds :
        /\ imagesLoadedPromise = "pending"
        /\ inFlight[imageId] > 0
        /\ inFlight' = [inFlight EXCEPT ![imageId] = @ - 1]
        /\ IF CatchesLoadError(imageId)
           THEN /\ loadErrors' = [loadErrors EXCEPT ![imageId] = @ + 1]
                /\ imagesLoadedPromise' =
                     IF AllImagesSettled(imageId) THEN "resolved"
                     ELSE imagesLoadedPromise
           ELSE /\ imagesLoadedPromise' = "rejected"
                /\ UNCHANGED loadErrors
        /\ UNCHANGED <<config, fitVars, startVars, layerVars, uiVars, zoomVars,
                       loadVars,
                       cursor, mapImages, loadImageCalls, addImageCalls, layerIcon,
                       iconsSwapped, loadHandler>>

\* map.on('load', ...) up to "await imagesLoadedPromise".
EagerMapLoad ==
    /\ ~mapLoaded
    /\ mapLoaded' = TRUE
    /\ loadHandler' = "awaitImages"
    /\ UNCHANGED <<config, layerIcon, iconsSwapped, imagesLoadedPromise, fitVars,
                   startVars, layerVars, uiVars, zoomVars, fitPending, cursor,
                   imageVars>>

SwapAllowed_AtLoad == TRUE
\* await imagesLoadedPromise
SwapAllowed == imagesLoadedPromise = "resolved"

\* if (!config.center && !config.zoom)
StandaloneAutoFit(cfg) == ~cfg.center /\ (cfg.zoom = Undef \/ cfg.zoom = 0)

\* The load handler after its first await: every rewritten layer gets its icon
\* back; then either fitMapToBounds starts and the handler awaits it, or the
\* controls and the feature handlers are set up.
SwapIconsBack ==
    /\ mapLoaded
    /\ ~iconsSwapped
    /\ SwapAllowed
    /\ iconsSwapped' = TRUE
    /\ layerIcon' = [l \in DOMAIN layerIcon |->
                        IF l \in originalLayerIcons(config) THEN config.iconImage[l]
                        ELSE layerIcon[l]]
    /\ IF StandaloneAutoFit(config)
       THEN /\ fitPending' = TRUE
            /\ loadHandler' = "awaitFit"
            /\ fetchCalls' = IssueFetches(config)
       ELSE loadHandler' = "done" /\ UNCHANGED <<fitPending, fetchCalls>>
    /\ UNCHANGED <<config, imagesLoadedPromise, geojsonAt, fitBoundsCalls, fitErrors,
                   resident, startVars, layerVars, uiVars,
                   zoomVars, mapLoaded, cursor, imageVars>>

\* The load handler after "await fitMapToBounds(...)":
\* initializeUiComponents(map, config); setupFeatureInteraction(map, config).
initializeUiComponents ==
    /\ loadHandler = "awaitFit"
    /\ ~fitPending
    /\ loadHandler' = "done"
    /\ UNCHANGED <<config, layerIcon, iconsSwapped, imagesLoadedPromise, fitVars,
                   startVars, layerVars, uiVars, zoomVars, loadVars, cursor,
                   imageVars>>

\* ------------------------------------------------------------------ startup
\* useState<AppConfig | null>(null)
NoConfig == [title |-> undefined]
MissingConfigError == "Error: The config URL parameter is missing."
InitializingError == "Error initializing application"

\* A data layer entry of the fetched document that carries no layerIds makes
\* dataLayer.layerIds.some(...) throw inside the try block.
LayerStatesThrow(cfg) ==
    \E i \in 1..Len(cfg.customUi.dataLayers) :
        "layerIds" \notin DOMAIN cfg.customUi.dataLayers[i]

\* The documents the config URL can yield: the layer configurations, one that
\* lists a background and a data layer naming style layers the style lacks,
\* one whose data layer names only a layer the style lacks,
\* and one whose data layer entry has no layerIds.
StartupConfigs ==
    {[BaseConfig EXCEPT !.sources = [s \in SourceNames |->
                                       IF s = "bg1-src" THEN [minzoom |-> 0, maxzoom |-> 1]
                                       ELSE IF s = "bg2-src"
                                            THEN [minzoom |-> 1, maxzoom |-> 2]
                                            ELSE NoZoomRange],
                        !.layers = [l \in StyleLayerIds |->
                                      [source |-> LayerSource(l), visibility |-> v[l]]]] :
        v \in {w \in [StyleLayerIds -> {"visible", "none"}] : w["trails-line"] = "visible"}}
    \cup {[BaseConfig EXCEPT
             !.customUi.backgroundLayers = <<"bg1", "ghost-bg", "bg2">>,
             !.customUi.dataLayers =
                 <<[id |-> "trails", layerIds |-> <<"trails-line", "ghost-line">>,
                    interactive |-> TRUE]>>],
          [BaseConfig EXCEPT
             !.customUi.dataLayers =
                 <<[id |-> "trails", layerIds |-> <<"ghost-line">>, interactive |-> TRUE],
                   [id |-> "pois", layerIds |-> <<"pois-symbol">>,
                    interactive |-> TRUE]>>],
          [BaseConfig EXCEPT
             !.customUi.dataLayers = <<[id |-> "broken", interactive |-> TRUE]>>]}

\* The mount effect up to its first await: a missing parameter is reported
\* and nothing is fetched; otherwise the configuration is requested.
initializeApp ==
    /\ configFetch = "idle"
    /\ error = ""
    /\ IF configUrl = ""
       THEN error' = MissingConfigError /\ UNCHANGED configFetch
       ELSE configFetch' = "pending" /\ UNCHANGED error
    /\ UNCHANGED <<config, eagerVars, fitVars, configUrl, mapCreated, layerVars,
                   uiVars, zoomVars,
                   loadVars, cursor, imageVars>>

\* The rest of the try block after the response arrived OK and parsed: the
\* state updates of one turn are committed together (createRoot batches them).
ConfigFetched ==
    /\ configFetch = "pending"
    /\ configFetch' = "ok"
    /\ \E cfg \in StartupConfigs :
          /\ config' = cfg
          /\ selectedBackgroundLayer' = DefaultBackground(cfg)
          /\ IF LayerStatesThrow(cfg)
             THEN error' = InitializingError /\ UNCHANGED visibleDataLayers
             ELSE visibleDataLayers' = InitialVisibleData(cfg) /\ UNCHANGED error
    /\ UNCHANGED <<eagerVars, fitVars, configUrl, mapCreated, layoutVisibility,
                   uiVars, zoomVars,
                   loadVars, cursor, imageVars>>

\* A response that is not OK, a fetch that rejects or a body that does not
\* parse: the catch reports it.
ConfigFetchFailed ==
    /\ configFetch = "pending"
    /\ configFetch' = "failed"
    /\ error' = InitializingError
    /\ UNCHANGED <<config, eagerVars, fitVars, configUrl, mapCreated, layerVars,
                   uiVars, zoomVars,
                   loadVars, cursor, imageVars>>

RendersMap_IgnoringError == config # NoConfig

\* render: the error message wins, then "Loading...", then the map and its UI.
RendersMap == error = "" /\ config # NoConfig

\* The Map component mounts: new maplibregl.Map({ style, center, zoom, bounds }).
MapMount ==
    /\ RendersMap
    /\ ~mapCreated
    /\ mapCreated' = TRUE
    /\ layoutVisibility' = StyleVisibility(config)
    /\ layerIcon' = config.iconImage
    /\ mapZoom' \in InitialZooms(config)
    /\ UNCHANGED <<config, iconsSwapped, imagesLoadedPromise, loadHandler, fitVars,
                   configUrl, configFetch, error,
                   selectedBackgroundLayer, visibleDataLayers, uiVars, mapMinZoom,
                   mapMaxZoom, loadVars, cursor, imageVars>>

\* ------------------------------------------------------------ specifications
\* Configurations that differ in the zoom limits of the background sources and
\* in the global clamp.
GlobalClamps == SourceDefs
\* Source definitions that declare at most one of minzoom / maxzoom.
OpenSourceDefs == {r \in SourceDefs : r.minzoom = Undef \/ r.maxzoom = Undef}
\* bg2 starts hidden; bg1 starts shown or hidden.
BackgroundVisibilities ==
    {v \in [SeqToSet(BackgroundLayerIds) -> {"visible", "none"}] : v["bg2"] = "none"}

ZoomConfigs ==
    {[BaseConfig EXCEPT
        !.center = TRUE,
        !.zoom = z,
        !.sources = [s \in SourceNames |->
                       IF s = "bg1-src" THEN a
                       ELSE IF s = "bg2-src" THEN b ELSE NoZoomRange],
        !.layers = [l \in StyleLayerIds |->
                      IF l \in DOMAIN v
                      THEN [source |-> LayerSource(l), visibility |-> v[l]]
                      ELSE BaseConfig.layers[l]],
        !.customUi.globalMinZoom = g.minzoom,
        !.customUi.globalMaxZoom = g.maxzoom] :
      a \in SourceDefs, b \in OpenSourceDefs, g \in GlobalClamps,
      v \in BackgroundVisibilities, z \in {0, 1}}

InitZoom == \E cfg \in ZoomConfigs : InitWith(cfg)

NextZoom ==
    \/ LayerChooserToggle
    \/ BackgroundRadioChange
    \/ ZoomControl
    \/ onMapLoad
    \/ fitMapToBoundsSettle

SpecZoom == InitZoom /\ [][NextZoom]_vars

\* Configurations that differ in the visibility the style gives each layer.
LayerConfigs ==
    {[BaseConfig EXCEPT
        !.layers = [l \in StyleLayerIds |->
                      [source |-> LayerSource(l), visibility |-> v[l]]]] :
      v \in {w \in [StyleLayerIds -> VisibilityValues] :
                /\ w["bg1"] # "unset" /\ w["bg2"] # "unset"
                /\ w["pois-symbol"] # "visible"}}

InitLayers == \E cfg \in LayerConfigs : InitWith(cfg)

NextLayers ==
    \/ LayerChooserToggle
    \/ BackgroundRadioChange
    \/ DataLayerCheckboxChange
    \/ MapDrag
    \/ onMapLoad
    \/ fitMapToBoundsSettle

SpecLayers == InitLayers /\ [][NextLayers]_vars

\* Configurations that differ in whether trails is interactive.
ClickConfigs ==
    {[BaseConfig EXCEPT
        !.customUi.dataLayers =
            [i \in 1..Len(DataLayerIds) |->
                [id |-> DataLayerIds[i],
                 layerIds |-> DataLayerLayerIds(DataLayerIds[i]),
                 interactive |-> IF DataLayerIds[i] = "trails" THEN t ELSE TRUE]]] :
      t \in BOOLEAN}

InitClick == \E cfg \in ClickConfigs : InitWith(cfg)

NextClick ==
    \/ MapClick
    \/ MouseMove
    \/ MapDblClick
    \/ MapDrag
    \/ InfoPanelClose
    \/ LayerChooserToggle
    \/ BackgroundRadioChange
    \/ DataLayerCheckboxChange
    \/ onMapLoad
    \/ fitMapToBoundsSettle

SpecClick == InitClick /\ [][NextClick]_vars

\* Clicks on features of every attribute shape, with the panel's own controls.
InitAspect == InitWith(BaseConfig)

NextAspect ==
    \/ FeatureClick
    \/ MapClick
    \/ InfoPanelClose
    \/ LayerChooserToggle

SpecAspect == InitAspect /\ [][NextAspect]_vars

\* The icon registry, interleaved with map events, under the base configuration
\* and under the same configuration without customImageResources.
ImageConfigs ==
    {BaseConfig,
     [f \in DOMAIN BaseConfig \ {"customImageResources"} |-> BaseConfig[f]]}

InitImages == \E cfg \in ImageConfigs : InitWith(cfg)

NextImages ==
    \/ StyleImageMissing
    \/ LoadImageResolved
    \/ LoadImageRejected
    \/ LayerChooserToggle
    \/ MapDrag

SpecImages == InitImages /\ [][NextImages]_vars

\* The same where every load that was started settles: map.loadImage resolves
\* or rejects, and the continuation of loadCustomImageOnDemand then runs.
SpecImagesFair == SpecImages /\ WF_vars(LoadImageResolved \/ LoadImageRejected)

\* Every event of the running application, under a configuration that declares
\* one custom icon.
InitFrame ==
    InitWith([BaseConfig EXCEPT !.customImageResources = <<CustomImageResources[1]>>])

NextFrame ==
    \/ MapClick
    \/ MouseMove
    \/ MapDrag
    \/ MapDblClick
    \/ InfoPanelClose
    \/ LayerChooserToggle
    \/ StyleImageMissing
    \/ LoadImageResolved
    \/ LoadImageRejected
    \/ BackgroundRadioChange
    \/ DataLayerCheckboxChange
    \/ onMapLoad
    \/ fitMapToBoundsSettle

SpecFrame == InitFrame /\ [][NextFrame]_vars

\* Camera fitting: configurations that differ in the view they supply and in
\* what their two data sources declare, over every document each may yield.
FitConfigs ==
    {[BaseConfig EXCEPT
        !.center = c, !.zoom = z, !.bounds = b,
        !.sourceKind = [s \in SourceNames |->
                          IF s = "trails-src" THEN k[1]
                          ELSE IF s = "pois-src" THEN k[2] ELSE "raster"]] :
      c \in BOOLEAN, z \in {Undef, 0, 1}, b \in BOOLEAN,
      k \in SourceKinds \X SourceKinds}

FitDocuments ==
    {[s \in SourceNames |->
        IF s = "trails-src" THEN d[1] ELSE IF s = "pois-src" THEN d[2] ELSE 2] :
      d \in DocumentIds \X DocumentIds}

\* The sources the engine may already hold the document of when the map loads:
\* string-data geojson sources whose URL yields a document.
Loadable(cfg, geo) == {s \in SourceNames : cfg.sourceKind[s] = "url" /\ geo[s] # 0}

InitFit ==
    \E cfg \in FitConfigs : \E geo \in FitDocuments :
        \E res \in SUBSET Loadable(cfg, geo) : InitEngine(cfg, geo, res)

NextFit ==
    \/ onMapLoad
    \/ fitMapToBoundsSettle
    \/ ZoomControl
    \/ LayerChooserToggle

SpecFit == InitFit /\ [][NextFit]_vars

\* The application from its mount: the session before the configuration is
\* known, then the layer chooser and the map's load.
InitStartup ==
    /\ config = NoConfig
    /\ configUrl \in {"", "config.json"}
    /\ configFetch = "idle"
    /\ error = ""
    /\ mapCreated = FALSE
    /\ selectedBackgroundLayer = ""
    /\ visibleDataLayers = {}
    /\ layerChooserVisible = FALSE
    /\ infoPanelVisible = FALSE
    /\ featureProperties = NoFeature
    /\ infoPanelData = [title |-> undefined, description |-> undefined,
                        imageUrl |-> undefined, imageSize |-> <<>>]
    /\ layoutVisibility = [l \in StyleLayerIds |-> "none"]
    /\ mapMinZoom = Undef
    /\ mapMaxZoom = Undef
    /\ mapZoom = 0
    /\ mapLoaded = FALSE
    /\ fitPending = FALSE
    /\ cursor = ""
    /\ mapImages = {}
    /\ inFlight = [i \in ImageIds |-> 0]
    /\ loadImageCalls = [i \in ImageIds |-> 0]
    /\ addImageCalls = [i \in ImageIds |-> 0]
    /\ loadErrors = [i \in ImageIds |-> 0]
    /\ geojsonAt = BaseGeojsonAt
    /\ fitBoundsCalls = << >>
    /\ fitErrors = 0
    /\ resident = {}
    /\ fetchCalls = [s \in SourceNames |-> 0]
    /\ layerIcon = [l \in StyleLayerIds |-> ""]
    /\ iconsSwapped = FALSE
    /\ imagesLoadedPromise = "none"
    /\ loadHandler = "idle"

NextStartup ==
    \/ initializeApp
    \/ ConfigFetched
    \/ ConfigFetchFailed
    \/ MapMount
    \/ onMapLoad
    \/ fitMapToBoundsSettle
    \/ LayerChooserToggle
    \/ BackgroundRadioChange
    \/ DataLayerCheckboxChange

SpecStartup == InitStartup /\ [][NextStartup]_vars

\* The standalone entry point right after it created the map, registered the
\* placeholder and started the icon loads, for every choice of layer icons.
EagerConfigs ==
    {[BaseConfig EXCEPT
        !.center = c,
        !.iconImage = [l \in StyleLayerIds |->
                         IF l = "pois-symbol" THEN p
                         ELSE IF l = "trails-line" THEN t ELSE ""]] :
      p \in {"peak", "hut", "nourl", "marker"}, t \in {"", "peak", "hut"},
      c \in BOOLEAN}

InitEager ==
    \E cfg \in EagerConfigs :
        /\ config = cfg
        /\ selectedBackgroundLayer = ""
        /\ visibleDataLayers = {}
        /\ layerChooserVisible = FALSE
        /\ infoPanelVisible = FALSE
        /\ featureProperties = NoFeature
        /\ infoPanelData = [title |-> undefined, description |-> undefined,
                            imageUrl |-> undefined, imageSize |-> <<>>]
        /\ layoutVisibility = StyleVisibility(cfg)
        /\ mapMinZoom = Undef
        /\ mapMaxZoom = Undef
        /\ mapZoom \in InitialZooms(cfg)
        /\ mapLoaded = FALSE
        /\ fitPending = FALSE
        /\ cursor = ""
        /\ mapImages = {PlaceholderImage}
        /\ inFlight = [i \in ImageIds |-> IF i \in EagerLoads(cfg) THEN 1 ELSE 0]
        /\ loadImageCalls = [i \in ImageIds |-> IF i \in EagerLoads(cfg) THEN 1 ELSE 0]
        /\ addImageCalls = [i \in ImageIds |-> 0]
        /\ loadErrors = [i \in ImageIds |-> 0]
        /\ geojsonAt = BaseGeojsonAt
        /\ fitBoundsCalls = << >>
        /\ fitErrors = 0
        /\ resident = {}
        /\ fetchCalls = [s \in SourceNames |-> 0]
        /\ configUrl = "config.json"
        /\ configFetch = "ok"
        /\ error = ""
        /\ mapCreated = TRUE
        /\ layerIcon = RewrittenIcons(cfg)
        /\ iconsSwapped = FALSE
        /\ imagesLoadedPromise = IF EagerLoads(cfg) = {} THEN "resolved" ELSE "pending"
        /\ loadHandler = "idle"

NextEager ==
    \/ EagerImageLoaded
    \/ EagerImageFailed
    \/ EagerMapLoad
    \/ SwapIconsBack
    \/ fitMapToBoundsSettle
    \/ initializeUiComponents

SpecEager == InitEager /\ [][NextEager]_vars

\* The same program where every step that needs nothing from the network is
\* eventually taken: the load event, and each continuation of the load handler
\* once what it awaits has settled.  Image loads and geometry fetches may take
\* for ever.
SpecEagerFair ==
    /\ SpecEager
    /\ WF_vars(EagerMapLoad)
    /\ WF_vars(SwapIconsBack)
    /\ WF_vars(initializeUiComponents)

\* The first standalone version, whose customUi.layerChooser.dataLayers entries
\* are { id, name, visible } with id naming a style layer: the configurations
\* differ in the visibility the style gives the two data layers and in their
\* visible flags.  The view is configured, so the load handler fits nothing.
LegacyConfigs ==
    {[ center |-> TRUE,
       zoom |-> 1,
       layers |-> [l \in StyleLayerIds |->
                     [source |-> LayerSource(l),
                      visibility |-> IF l \in DOMAIN v THEN v[l]
                                     ELSE BaseConfig.layers[l].visibility]],
       customUi |->
         [layerChooser |->
            [ backgroundLayers |-> BackgroundLayerIds,
              dataLayers |-> <<[id |-> "trails-line", visible |-> f[1]],
                               [id |-> "pois-symbol", visible |-> f[2]]>> ]] ] :
      v \in [{"trails-line", "pois-symbol"} -> VisibilityValues],
      f \in BOOLEAN \X BOOLEAN}

\* After new Map({ style: config }): nothing of the chooser exists yet.
InitLegacy ==
    \E cfg \in LegacyConfigs :
        /\ config = cfg
        /\ selectedBackgroundLayer = ""
        /\ visibleDataLayers = {}
        /\ layerChooserVisible = FALSE
        /\ infoPanelVisible = FALSE
        /\ featureProperties = NoFeature
        /\ infoPanelData = [title |-> undefined, description |-> undefined,
                            imageUrl |-> undefined, imageSize |-> <<>>]
        /\ layoutVisibility = StyleVisibility(cfg)
        /\ mapMinZoom = Undef
        /\ mapMaxZoom = Undef
        /\ mapZoom = cfg.zoom
        /\ mapLoaded = FALSE
        /\ fitPending = FALSE
        /\ cursor = ""
        /\ mapImages = {}
        /\ inFlight = [i \in ImageIds |-> 0]
        /\ loadImageCalls = [i \in ImageIds |-> 0]
        /\ addImageCalls = [i \in ImageIds |-> 0]
        /\ loadErrors = [i \in ImageIds |-> 0]
        /\ geojsonAt = BaseGeojsonAt
        /\ fitBoundsCalls = << >>
        /\ fitErrors = 0
        /\ resident = {}
        /\ fetchCalls = [s \in SourceNames |-> 0]
        /\ configUrl = "config.json"
        /\ configFetch = "ok"
        /\ error = ""
        /\ mapCreated = TRUE
        /\ layerIcon = [l \in StyleLayerIds |-> ""]
        /\ iconsSwapped = FALSE
        /\ imagesLoadedPromise = "none"
        /\ loadHandler = "idle"

\* map.on('load', async ...) up to "await loadCustomImages(map, config.layers)".
LegacyMapLoad ==
    /\ ~mapLoaded
    /\ mapLoaded' = TRUE
    /\ loadHandler' = "awaitImages"
    /\ UNCHANGED <<config, layerIcon, iconsSwapped, imagesLoadedPromise, fitVars,
                   startVars, layerVars, uiVars, zoomVars, fitPending, cursor,
                   imageVars>>

\* initializeUiComponents -> setupLayerChooser: the first radio is checked and
\* each checkbox takes its entry's visible flag; no layer property is written.
LegacySetupLayerChooser ==
    LET chooserConfig == config.customUi.layerChooser
    IN  /\ loadHandler = "awaitImages"
        /\ loadHandler' = "done"
        /\ selectedBackgroundLayer' = chooserConfig.backgroundLayers[1]
        /\ visibleDataLayers' =
              {chooserConfig.dataLayers[i].id :
                 i \in {k \in 1..Len(chooserConfig.dataLayers) :
                           chooserConfig.dataLayers[k].visible}}
        /\ UNCHANGED <<config, layerIcon, iconsSwapped, imagesLoadedPromise, fitVars,
                       startVars, layoutVisibility, uiVars, zoomVars, loadVars,
                       cursor, imageVars>>

\* button click: panel.classList.toggle('visible')
LegacyChooserToggle ==
    /\ loadHandler = "done"
    /\ layerChooserVisible' = ~layerChooserVisible
    /\ UNCHANGED <<config, sessionVars, layerVars, infoPanelVisible, infoPanelData, featureProperties,
                   zoomVars, loadVars, cursor, imageVars>>

\* A data layer's checkbox changes: its style layer is shown or hidden.
LegacyDataCheckboxChange ==
    \E i \in 1..Len(config.customUi.layerChooser.dataLayers) :
        LET layer == config.customUi.layerChooser.dataLayers[i]
            isVisible == layer.id \notin visibleDataLayers
        IN  /\ layerChooserVisible
            /\ visibleDataLayers' = IF isVisible THEN visibleDataLayers \cup {layer.id}
                                    ELSE visibleDataLayers \ {layer.id}
            /\ layoutVisibility' = [layoutVisibility EXCEPT
                                      ![layer.id] = IF isVisible THEN "visible"
                                                    ELSE "none"]
            /\ UNCHANGED <<config, sessionVars, selectedBackgroundLayer, uiVars,
                           zoomVars, loadVars, cursor, imageVars>>

\* A background's radio is chosen: it alone of the backgrounds is shown.
LegacyBackgroundRadioChange ==
    \E i \in 1..Len(config.customUi.layerChooser.backgroundLayers) :
        LET bgs == config.customUi.layerChooser.backgroundLayers
        IN  /\ layerChooserVisible
            /\ bgs[i] # selectedBackgroundLayer
            /\ selectedBackgroundLayer' = bgs[i]
            /\ layoutVisibility' =
                  [l \in DOMAIN layoutVisibility |->
                      IF l \in SeqToSet(bgs)
                      THEN (IF l = bgs[i] THEN "visible" ELSE "none")
                      ELSE layoutVisibility[l]]
            /\ UNCHANGED <<config, sessionVars, visibleDataLayers, uiVars, zoomVars,
                           loadVars, cursor, imageVars>>

NextLegacy ==
    \/ LegacyMapLoad
    \/ LegacySetupLayerChooser
    \/ LegacyChooserToggle
    \/ LegacyDataCheckboxChange
    \/ LegacyBackgroundRadioChange

SpecLegacy == InitLegacy /\ [][NextLegacy]_vars

\* Every event of the application, under the base configuration.
Init == InitWith(BaseConfig)

Next ==
    \/ NextZoom
    \/ NextLayers
    \/ NextClick
    \/ NextImages

Spec == Init /\ [][Next]_vars

\* ------------------------------------------------------------------ claims
ConfiguredBackgrounds == SeqToSet(config.customUi.backgroundLayers)
BackgroundShown(l) == layoutVisibility[l] = "visible"

\* layerId is the selected background and the only configured background shown.
OnlyBackground(layerId) ==
    /\ selectedBackgroundLayer = layerId
    /\ \A l \in ConfiguredBackgrounds : BackgroundShown(l) <=> l = layerId

\* C1: every background selection leaves exactly the selected background
\* visible, every other configured background hidden and
\* selectedBackgroundLayer equal to it, and this lasts until the next selection.
C1_ExactlyOneBackground ==
    [][\A layerId \in ConfiguredBackgrounds :
          /\ handleBackgroundLayerChange(layerId) => OnlyBackground(layerId)'
          /\ (OnlyBackground(layerId) /\ ~BackgroundRadioChange)
                => OnlyBackground(layerId)']_vars

\* bg2 was selected in a configuration that showed both backgrounds at start.
C1_Witness ==
    /\ config.layers["bg1"].visibility = "visible"
    /\ config.layers["bg2"].visibility = "visible"
    /\ OnlyBackground("bg2")
    /\ visibleDataLayers # InitialVisibleData(config)

\* The range the source of a background and the global clamp resolve to.
Resolved(layerId) ==
    getClampedZoomBounds(config.sources[config.layers[layerId].source], config.customUi)

\* C2: whenever the resolved minZoom and maxZoom are both defined,
\* minZoom <= maxZoom.
C2_MinAtMostMax ==
    \A layerId \in ConfiguredBackgrounds :
        (Resolved(layerId).minZoom # Undef /\ Resolved(layerId).maxZoom # Undef)
            => Resolved(layerId).minZoom <= Resolved(layerId).maxZoom

\* z satisfies the optional bounds lo and hi.
Within(z, lo, hi) == (lo = Undef \/ z >= lo) /\ (hi = Undef \/ z <= hi)

\* The range the claims expect for a background, written out from the numbers
\* of its source and of the global clamp.
ExpectedRange(layerId) ==
    LET src == config.sources[config.layers[layerId].source]
        gMin == config.customUi.globalMinZoom
        gMax == config.customUi.globalMaxZoom
    IN  [ minZoom |-> IF gMin = Undef THEN src.minzoom
                      ELSE IF src.minzoom = Undef THEN gMin
                      ELSE IF src.minzoom >= gMin THEN src.minzoom ELSE gMin,
          maxZoom |-> IF gMax = Undef THEN src.maxzoom
                      ELSE IF src.maxzoom = Undef THEN gMax
                      ELSE IF src.maxzoom <= gMax THEN src.maxzoom ELSE gMax ]

\* C3: the resolved min is max(sourceMin ?? globalMin, globalMin) when globalMin
\* is set and sourceMin otherwise, the resolved max is
\* min(sourceMax ?? globalMax, globalMax) when globalMax is set and sourceMax
\* otherwise; every zoom the resolved range admits is admitted by the source's
\* own range and by the global clamp, and no resolved bound lies outside the
\* clamp's bound on its side.
C3_OnlyNarrows ==
    \A layerId \in ConfiguredBackgrounds :
        LET src == config.sources[config.layers[layerId].source]
            gMin == config.customUi.globalMinZoom
            gMax == config.customUi.globalMaxZoom
            r == Resolved(layerId)
        IN  /\ r = ExpectedRange(layerId)
            /\ \A z \in ZoomLevels :
                  Within(z, r.minZoom, r.maxZoom)
                     => /\ Within(z, src.minzoom, src.maxzoom)
                        /\ Within(z, gMin, gMax)
            /\ gMin # Undef => r.minZoom >= gMin
            /\ gMax # Undef => r.maxZoom <= gMax

\* bg1 declares a range wider than the global clamp on both sides and the
\* engine holds the clamped range.
C3_Witness ==
    /\ mapLoaded
    /\ selectedBackgroundLayer = "bg1"
    /\ config.sources["bg1-src"] = [minzoom |-> 0, maxzoom |-> 2]
    /\ config.customUi.globalMinZoom = 1
    /\ config.customUi.globalMaxZoom = 1
    /\ mapMinZoom = 1
    /\ mapMaxZoom = 1

\* C4: after a background change to layerId the engine's min and max zoom are
\* the range of layerId's own source under the global clamp (Undef: the limit
\* is cleared), whatever the limits were before.
C4_BoundsOfNewBackground ==
    [][\A layerId \in ConfiguredBackgrounds :
          handleBackgroundLayerChange(layerId)
             => /\ mapMinZoom' = ExpectedRange(layerId).minZoom
                /\ mapMaxZoom' = ExpectedRange(layerId).maxZoom]_vars

\* bg1's limits were applied at load; after selecting bg2, whose source
\* declares no maxzoom, the engine's max limit is cleared and its min is bg2's.
C4_Witness ==
    /\ mapLoaded
    /\ DefaultBackground(config) = "bg1"
    /\ selectedBackgroundLayer = "bg2"
    /\ config.customUi.globalMaxZoom = Undef
    /\ config.sources["bg1-src"] = [minzoom |-> 0, maxzoom |-> 1]
    /\ config.sources["bg2-src"] = [minzoom |-> 2, maxzoom |-> Undef]
    /\ mapMinZoom = 2
    /\ mapMaxZoom = Undef

\* C5: after a background change the camera zoom lies within the resolved
\* range: a zoom above the resolved max is moved to the max, a zoom below the
\* resolved min is moved to the min, any other zoom is left unchanged.
C5_ZoomWithinRange ==
    [][\A layerId \in ConfiguredBackgrounds :
          handleBackgroundLayerChange(layerId)
             => LET r == ExpectedRange(layerId)
                IN  /\ Within(mapZoom', r.minZoom, r.maxZoom)
                    /\ (r.maxZoom # Undef /\ mapZoom > r.maxZoom)
                          => mapZoom' = r.maxZoom
                    /\ (r.minZoom # Undef /\ mapZoom < r.minZoom)
                          => mapZoom' = r.minZoom
                    /\ Within(mapZoom, r.minZoom, r.maxZoom)
                          => mapZoom' = mapZoom]_vars

\* C6: requests for one icon id that arrive before its load has settled share
\* that load: no icon id ever has two loadImage calls in flight.
C6_OneLoadInFlight ==
    \A imageId \in ImageIds : inFlight[imageId] <= 1

\* C7: addImage is called at most once per icon id, and the registry holds at
\* most one image per id, however missing-image events and load completions
\* interleave.
C7_AddImageAtMostOnce ==
    \A imageId \in ImageIds :
        /\ addImageCalls[imageId] <= 1
        /\ Cardinality({img \in mapImages : img.id = imageId}) <= 1
        /\ addImageCalls[imageId] = 1 <=> hasImage(imageId)

\* Two loads of "peak" were issued and both resolved; it was registered once.
C7_Witness ==
    /\ loadImageCalls["peak"] = 2
    /\ inFlight["peak"] = 0
    /\ loadErrors["peak"] = 0
    /\ addImageCalls["peak"] = 1
    /\ hasImage("peak")

\* The style layers a configured data layer lists.
ListedLayers(i) == SeqToSet(config.customUi.dataLayers[i].layerIds)

\* C8 as claimed: a data layer is in visibleDataLayers iff every style layer it
\* lists is visible in the engine.
C8_EveryLayerVisible ==
    \A i \in 1..Len(config.customUi.dataLayers) :
        config.customUi.dataLayers[i].id \in visibleDataLayers
            <=> \A l \in ListedLayers(i) : layoutVisibility[l] = "visible"

\* C8 amended: a data layer is in visibleDataLayers iff at least one style
\* layer it lists is visible in the engine.
C8_SomeLayerVisible ==
    \A i \in 1..Len(config.customUi.dataLayers) :
        config.customUi.dataLayers[i].id \in visibleDataLayers
            <=> \E l \in ListedLayers(i) : layoutVisibility[l] = "visible"

\* The style showed trails-casing and hid trails-line; trails has since been
\* toggled off and on, and pois toggled on.
C8_Witness ==
    /\ config.layers["trails-casing"].visibility = "visible"
    /\ config.layers["trails-line"].visibility = "none"
    /\ config.layers["pois-symbol"].visibility = "none"
    /\ visibleDataLayers = {"trails", "pois"}
    /\ layoutVisibility["trails-line"] = "visible"
    /\ layoutVisibility["trails-casing"] = "visible"
    /\ layoutVisibility["pois-symbol"] = "visible"

\* C9: handleDataLayerToggle(d, visible) gives every style layer d lists the
\* visibility 'visible' when visible and 'none' when not, and afterwards d is
\* in visibleDataLayers exactly when visible.
C9_ToggleSetsEveryLayer ==
    [][\A i \in 1..Len(DataLayerIds) : \A visible \in BOOLEAN :
          handleDataLayerToggle(DataLayerIds[i], visible)
             => /\ \A l \in SeqToSet(DataLayerLayerIds(DataLayerIds[i])) :
                      layoutVisibility'[l] = IF visible THEN "visible" ELSE "none"
                /\ DataLayerIds[i] \in visibleDataLayers' <=> visible]_vars

\* trails, hidden by the style, was toggled on: both its layers are visible.
C9_Witness ==
    /\ config.layers["trails-casing"].visibility = "none"
    /\ config.layers["trails-line"].visibility = "none"
    /\ "trails" \in visibleDataLayers
    /\ layoutVisibility["trails-casing"] = "visible"
    /\ layoutVisibility["trails-line"] = "visible"

\* The record of a feature of the catalogue, attribute by attribute.
FeatureRecord(i) ==
    LET p == Features[i].properties
    IN  [ title |-> IF "title" \in DOMAIN p THEN p.title ELSE undefined,
          description |-> IF "description" \in DOMAIN p THEN p.description
                          ELSE undefined,
          imageUrl |-> IF "imageUrl" \in DOMAIN p THEN p.imageUrl ELSE undefined,
          imageSize |-> IF i = 1 THEN <<4, 3>> ELSE <<>> ]

\* C10: a click that hits no feature of the interactive layers hides the info
\* panel; a click that hits some shows the panel with the record of the first
\* feature the hit test returns, a field that feature lacks being undefined.
C10_ClickShowsFirstFeature ==
    [][\A rendered \in RenderedAt :
          onMapClick(rendered)
             => LET hits == queryRenderedFeatures(rendered,
                                                  getClickableLayerIds(config))
                IN  IF hits = <<>>
                    THEN ~infoPanelVisible'
                    ELSE /\ infoPanelVisible'
                         /\ infoPanelData' = FeatureRecord(hits[1])]_vars

\* The panel shows the Hut feature, which has a title only.
C10_Witness ==
    /\ infoPanelVisible
    /\ infoPanelData = [title |-> "Hut", description |-> undefined,
                        imageUrl |-> undefined, imageSize |-> <<>>]

\* A source whose data is declared as a URL (type 'geojson', string data).
DeclaredByUrl(s) == config.sourceKind[s] = "url"
UrlSources == {s \in SourceNames : DeclaredByUrl(s)}

\* Every coordinate of a Point, LineString or Polygon geometry.
CoordinatesOf(feature) ==
    IF feature.type = "Point" THEN {feature.coordinates}
    ELSE IF feature.type = "LineString" THEN SeqToSet(feature.coordinates)
    ELSE IF feature.type = "Polygon"
         THEN UNION {SeqToSet(feature.coordinates[r]) :
                        r \in 1..Len(feature.coordinates)}
    ELSE {}

\* Every coordinate of every feature of the documents of a set of sources.
CoordinatesIn(sources) ==
    UNION {UNION {CoordinatesOf(Documents[geojsonAt[s]][f]) :
                     f \in 1..Len(Documents[geojsonAt[s]])} :
           s \in {t \in sources : geojsonAt[t] # 0}}

\* The envelope of a non-empty set of coordinates.
EnvelopeOf(coords) ==
    [empty |-> FALSE,
     west |-> CHOOSE x \in {c[1] : c \in coords} : \A c \in coords : x <= c[1],
     south |-> CHOOSE y \in {c[2] : c \in coords} : \A c \in coords : y <= c[2],
     east |-> CHOOSE x \in {c[1] : c \in coords} : \A c \in coords : x >= c[1],
     north |-> CHOOSE y \in {c[2] : c \in coords} : \A c \in coords : y >= c[2]]

\* The document a source yields holds Point, LineString and Polygon features
\* (and features without geometry) only.
PlainGeometries(s) ==
    /\ geojsonAt[s] # 0
    /\ \A f \in 1..Len(Documents[geojsonAt[s]]) :
          Documents[geojsonAt[s]][f].type \in {"Point", "LineString", "Polygon", "null"}

C12_FailedSourceIsolated ==
    [][(fitMapToBoundsSettle
          /\ \A s \in UrlSources : geojsonAt[s] = 0 \/ PlainGeometries(s))
         => IF CoordinatesIn(UrlSources) # {}
            THEN fitBoundsCalls' =
                   Append(fitBoundsCalls, EnvelopeOf(CoordinatesIn(UrlSources)))
            ELSE fitBoundsCalls' = fitBoundsCalls]_vars

\* The configuration supplies a center together with a zoom, or bounds.
ViewSupplied == (config.center /\ config.zoom # Undef) \/ config.bounds

\* C19: on map load the fit is attempted iff the configuration supplies
\* neither center together with zoom nor bounds; when it supplies one of them
\* fitBounds is never called.
C19_FitOnlyWithoutView ==
    [][/\ onMapLoad => (fitPending' <=> ~ViewSupplied)
       /\ ViewSupplied => fitBoundsCalls' = << >>]_vars

\* C20: when no URL-declared source yields a feature with a coordinate,
\* fitMapToBounds calls no fitBounds and the camera zoom keeps its value.
C20_EmptyEnvelopeNoCameraChange ==
    [][(fitMapToBoundsSettle /\ CoordinatesIn(UrlSources) = {})
         => /\ fitBoundsCalls' = fitBoundsCalls
            /\ mapZoom' = mapZoom]_vars

\* Both data sources loaded a collection without features; the fit ended
\* without an error and without a fitBounds call.
C20_Witness ==
    /\ mapLoaded /\ ~fitPending
    /\ ~ViewSupplied
    /\ UrlSources = {"trails-src", "pois-src"}
    /\ geojsonAt["trails-src"] = 2 /\ geojsonAt["pois-src"] = 2
    /\ fitErrors = 0
    /\ fitBoundsCalls = << >>

\* The engine shows layerId alone among the backgrounds and holds the zoom
\* limits resolved for layerId.
BackgroundApplied(layerId) ==
    /\ OnlyBackground(layerId)
    /\ mapMinZoom = ExpectedRange(layerId).minZoom
    /\ mapMaxZoom = ExpectedRange(layerId).maxZoom

\* C14: a background change is one step for every observer: the state the
\* handler leaves has the visibility of the new background, its zoom limits and
\* the snapped zoom together, and every later handler other than a background
\* change or the load handler starts and ends in such a state.
C14_BackgroundChangeAtomic ==
    [][\A layerId \in ConfiguredBackgrounds :
          /\ handleBackgroundLayerChange(layerId)
                => /\ BackgroundApplied(layerId)'
                   /\ (mapMaxZoom' # Undef /\ mapZoom > mapMaxZoom')
                         => mapZoom' = mapMaxZoom'
                   /\ (mapMinZoom' # Undef /\ mapZoom < mapMinZoom'
                         /\ ~(mapMaxZoom' # Undef /\ mapZoom > mapMaxZoom'))
                         => mapZoom' = mapMinZoom'
          /\ (BackgroundApplied(layerId) /\ ~BackgroundRadioChange /\ ~onMapLoad)
                => BackgroundApplied(layerId)']_vars

\* After load, bg2 was selected: bg2 alone is shown, bg1's min limit is cleared,
\* the max limit is bg2's and the zoom is at that max.
C14_Witness ==
    /\ mapLoaded
    /\ DefaultBackground(config) = "bg1"
    /\ config.sources["bg1-src"] = [minzoom |-> 1, maxzoom |-> 2]
    /\ config.sources["bg2-src"] = [minzoom |-> Undef, maxzoom |-> 1]
    /\ config.customUi.globalMinZoom = Undef
    /\ config.customUi.globalMaxZoom = Undef
    /\ BackgroundApplied("bg2")
    /\ mapZoom = 1
    /\ ~layerChooserVisible

\* The raw configuration marks no configured background visible.
NoBackgroundMarked ==
    \A l \in ConfiguredBackgrounds : config.layers[l].visibility = "none"

\* C15: when the raw configuration marks no configured background visible,
\* the first declared background is the active one from startup until a
\* background is selected, so a configured background is active in every state.
C15_FallbackToFirstBackground ==
    NoBackgroundMarked
       => /\ selectedBackgroundLayer \in ConfiguredBackgrounds
          /\ (\A l \in ConfiguredBackgrounds \ {config.customUi.backgroundLayers[1]} :
                 layoutVisibility[l] = "none")
                => selectedBackgroundLayer = config.customUi.backgroundLayers[1]

\* C16: a missing config parameter is reported without any fetch; a failed
\* fetch or parse is reported; once an error is set it stays and the map is
\* never created: no state has both an error and a map.
C16_ErrorMeansNoMap ==
    [][/\ (initializeApp /\ configUrl = "")
             => (error' = MissingConfigError /\ configFetch' = "idle")
       /\ configUrl = "" => configFetch' = "idle"
       /\ ConfigFetchFailed => error' # ""
       /\ error # "" => error' = error
       /\ error' # "" => ~mapCreated']_vars

\* The document fetched had a data layer without layerIds: the configuration
\* was stored, the error is shown and no map exists.
C16_Witness ==
    /\ configFetch = "ok"
    /\ config # NoConfig
    /\ error = InitializingError
    /\ ~mapCreated

\* C17: an entry that names a layer absent from the style is skipped: it is
\* never the selected background and never a visible data layer.
C17_InvalidReferenceSkipped ==
    mapCreated
       => /\ selectedBackgroundLayer \in {""} \cup DOMAIN config.layers
          /\ \A i \in 1..Len(config.customUi.dataLayers) :
                config.customUi.dataLayers[i].id \in visibleDataLayers
                   => SeqToSet(config.customUi.dataLayers[i].layerIds)
                         \subseteq DOMAIN config.layers

NotProvided(id) == loadErrors[id] > 0 \/ ImageInfo(config, id).url = ""

C18_IconFailureContained ==
    /\ \A id \in ImageIds :
          (loadImageCalls[id] > 0 /\ inFlight[id] = 0)
             => (hasImage(id) <=> loadErrors[id] = 0)
    /\ imagesLoadedPromise # "rejected"
    /\ (\A id \in ImageIds : inFlight[id] = 0) => imagesLoadedPromise = "resolved"

\* peak failed to load and is unregistered; hut loaded after it and is
\* registered; provisioning has resolved.
C18_Witness ==
    /\ loadErrors["peak"] = 1 /\ ~hasImage("peak")
    /\ loadErrors["hut"] = 0 /\ hasImage("hut")
    /\ imagesLoadedPromise = "resolved"

\* Every coordinate of a geometry, the multi-part geometries being the union
\* of their parts.
CoordinatesOfParts(feature) ==
    LET c == feature.coordinates
    IN  IF feature.type = "MultiPoint" THEN SeqToSet(c)
        ELSE IF feature.type = "MultiLineString"
             THEN UNION {SeqToSet(c[i]) : i \in 1..Len(c)}
        ELSE IF feature.type = "MultiPolygon"
             THEN UNION {UNION {SeqToSet(c[i][r]) : r \in 1..Len(c[i])} : i \in 1..Len(c)}
        ELSE CoordinatesOf(feature)

AllCoordinatesIn(sources) ==
    UNION {UNION {CoordinatesOfParts(Documents[geojsonAt[s]][f]) :
                     f \in 1..Len(Documents[geojsonAt[s]])} :
           s \in {t \in sources : geojsonAt[t] # 0}}

\* C21: when every source loaded, the bounds passed to fitBounds cover every
\* coordinate of every feature, the parts of MultiPoint, MultiLineString and
\* MultiPolygon geometries included as the union of their parts.
C21_MultiGeometriesExtend ==
    [][(fitMapToBoundsSettle
          /\ (\A s \in UrlSources : geojsonAt[s] # 0)
          /\ AllCoordinatesIn(UrlSources) # {})
         => fitBoundsCalls' =
              Append(fitBoundsCalls, EnvelopeOf(AllCoordinatesIn(UrlSources)))]_vars

\* The permutations of 1..n.
Perms(n) == {f \in [1..n -> 1..n] : \A i, j \in 1..n : f[i] = f[j] => i = j}
\* Sequence s taken in the order f.
Permuted(s, f) == [i \in 1..Len(s) |-> s[f[i]]]
\* Bounds a cover bounds b.
Covers(a, b) ==
    b.empty \/ (~a.empty /\ a.west <= b.west /\ a.south <= b.south
                         /\ a.east >= b.east /\ a.north >= b.north)
\* The documents the sources fitMapToBounds collects yield, in visiting order.
CollectedDocuments ==
    [i \in 1..Len(geojsonFetches(config)) |-> geojsonAt[geojsonFetches(config)[i]]]

\* C22: the envelope does not depend on the order of the sources nor on the
\* order of the features of a source, it covers the envelope of each source
\* alone, and the bounds handed to fitBounds are that envelope whatever the
\* order.
C22_EnvelopeOrderIndependent ==
    (\A i \in 1..Len(CollectedDocuments) : CollectedDocuments[i] # 0)
       => LET docs == CollectedDocuments
              envelope == ExtendDocuments(EmptyBounds, docs)
          IN  /\ \A f \in Perms(Len(docs)) :
                    ExtendDocuments(EmptyBounds, Permuted(docs, f)) = envelope
              /\ \A i \in 1..Len(docs) :
                    /\ Covers(envelope, ExtendDocuments(EmptyBounds, <<docs[i]>>))
                    /\ \A f \in Perms(Len(Documents[docs[i]])) :
                          ExtendFeatures(EmptyBounds, Permuted(Documents[docs[i]], f))
                             = ExtendFeatures(EmptyBounds, Documents[docs[i]])
              /\ \A k \in 1..Len(fitBoundsCalls) : fitBoundsCalls[k] = envelope

\* A line and a polygon from two sources were fitted: west -2, south -2,
\* east 3, north 3, neither source's own envelope.
C22_Witness ==
    /\ geojsonFetches(config) = <<"trails-src", "pois-src">>
    /\ geojsonAt["trails-src"] = 4
    /\ geojsonAt["pois-src"] = 3
    /\ fitBoundsCalls = << [empty |-> FALSE, west |-> -2, south |-> -2,
                            east |-> 3, north |-> 3] >>

\* C23: each pointer move after load sets the cursor to "pointer" exactly when
\* the hit test finds a feature on a layer of the interactive set, the union of
\* the layerIds of the data layers marked interactive, and to "" otherwise; a
\* feature on any other layer never gives the pointer cursor.
InteractiveLayerSet ==
    {l \in StyleLayerIds :
        \E i \in 1..Len(config.customUi.dataLayers) :
            /\ config.customUi.dataLayers[i].interactive
            /\ l \in SeqToSet(config.customUi.dataLayers[i].layerIds)}

C23_CursorIffInteractiveHit ==
    [][\A rendered \in RenderedAt :
          onMouseMove(rendered)
             => /\ cursor' \in {"pointer", ""}
                /\ cursor' = "pointer"
                      <=> queryRenderedFeatures(rendered, InteractiveLayerSet) # <<>>]_vars

\* The trails layer is not interactive, its line is shown, and the pointer is
\* over a point of interest.
C23_Witness ==
    /\ mapLoaded
    /\ cursor = "pointer"
    /\ "trails-line" \notin InteractiveLayerSet
    /\ layoutVisibility["trails-line"] = "visible"

\* C24: a map click, a map drag or a map double-click taken while the layer
\* chooser is open leaves it closed, whether or not a feature is under the
\* pointer.
C24_MapGestureClosesChooser ==
    [][(layerChooserVisible /\ (MapClick \/ MapDrag \/ MapDblClick))
          => ~layerChooserVisible']_vars

\* A data layer was switched off in the chooser, and a click on a feature then
\* left the chooser closed and the info panel open.
C24_Witness ==
    /\ ~layerChooserVisible
    /\ infoPanelVisible
    /\ "trails" \notin visibleDataLayers
    /\ "trails" \in InitialVisibleData(config)

\* C25: in the standalone entry point, once the map's load event was handled
\* the controls (layer chooser) and the feature handlers (hover cursor, click)
\* are eventually set up, even when an icon load or a geometry fetch never
\* completes.
C25_UiAvailableAfterLoad == mapLoaded ~> (loadHandler = "done")

\* C26: a click whose picked feature has none of title, description and
\* imageUrl does not leave the info panel open on a record without content.
HasContent(properties) ==
    \E k \in {"title", "description", "imageUrl"} : k \in DOMAIN properties

C26_BareFeatureNotShown ==
    [][\A rendered \in RenderedAt :
          onMapClick(rendered)
             => LET hits == queryRenderedFeatures(rendered,
                                                  getClickableLayerIds(config))
                IN  (hits # <<>> /\ ~HasContent(Features[hits[1]].properties))
                       => ~infoPanelVisible']_vars

\* C27: when globalMinZoom and globalMaxZoom are configured, from the map's
\* load onward the engine's minimum and maximum zoom both lie within
\* [globalMinZoom, globalMaxZoom], before and after any background selection.
C27_EngineLimitsWithinGlobalClamp ==
    LET gMin == config.customUi.globalMinZoom
        gMax == config.customUi.globalMaxZoom
    IN  (mapLoaded /\ gMin # Undef /\ gMax # Undef /\ gMin <= gMax)
            => /\ mapMinZoom # Undef /\ gMin <= mapMinZoom /\ mapMinZoom <= gMax
               /\ mapMaxZoom # Undef /\ gMin <= mapMaxZoom /\ mapMaxZoom <= gMax

\* C28: in the variant whose dataLayers entries carry a visible flag, when the
\* layer chooser is set up each data layer's checkbox is checked exactly when its
\* flag is true, and its style layer is rendered exactly when its flag is true.
C28_InitialStateIsVisibleFlag ==
    [][LegacySetupLayerChooser
          => \A i \in 1..Len(config.customUi.layerChooser.dataLayers) :
                LET layer == config.customUi.layerChooser.dataLayers[i]
                IN  /\ (layer.id \in visibleDataLayers') <=> layer.visible
                    /\ (layoutVisibility'[layer.id] = "visible") <=> layer.visible]_vars

\* C29: in every state reachable by map clicks, drags, double-clicks, chooser
\* toggles, background selections, data-layer toggles and info-panel closes,
\* the layer chooser panel and the info panel are not both visible.
C29_ChooserAndPanelExclusive == ~(layerChooserVisible /\ infoPanelVisible)

\* The chooser was opened to select bg2, and a later click on a feature opened
\* the info panel.
C29_Witness ==
    /\ infoPanelVisible
    /\ ~layerChooserVisible
    /\ selectedBackgroundLayer = "bg2"

\* C30: handleDataLayerToggle(d, visible) leaves the selected background, the
\* engine's zoom limits, the camera zoom, the membership of every other data
\* layer in visibleDataLayers and the visibility of every style layer d does
\* not list as they were; data layers are shown independently of each other.
C30_ToggleTouchesOnlyItsLayer ==
    [][\A i \in 1..Len(DataLayerIds) : \A visible \in BOOLEAN :
          handleDataLayerToggle(DataLayerIds[i], visible)
             => /\ selectedBackgroundLayer' = selectedBackgroundLayer
                /\ mapMinZoom' = mapMinZoom /\ mapMaxZoom' = mapMaxZoom
                /\ mapZoom' = mapZoom
                /\ \A e \in SeqToSet(DataLayerIds) \ {DataLayerIds[i]} :
                      e \in visibleDataLayers' <=> e \in visibleDataLayers
                /\ \A l \in StyleLayerIds \ SeqToSet(DataLayerLayerIds(DataLayerIds[i])) :
                      layoutVisibility'[l] = layoutVisibility[l]]_vars

\* Both data layers started hidden and were switched on one after the other:
\* all of them are shown at once.
C30_Witness ==
    /\ InitialVisibleData(config) = {}
    /\ visibleDataLayers = SeqToSet(DataLayerIds)
    /\ \A i \in 1..Len(DataLayerIds) :
          \A l \in SeqToSet(DataLayerLayerIds(DataLayerIds[i])) :
              layoutVisibility[l] = "visible"

\* C31: a map click, pointer move, drag, double-click, info-panel close,
\* chooser toggle or missing-image event leaves every layer's visibility, the
\* engine's min/max zoom, selectedBackgroundLayer and visibleDataLayers as they
\* were; once the map has loaded, a step that changes any of them is a
\* handleBackgroundLayerChange or a handleDataLayerToggle.
RenderingState ==
    <<layoutVisibility, mapMinZoom, mapMaxZoom, selectedBackgroundLayer,
      visibleDataLayers>>

C31_OnlyTwoWriters ==
    [][/\ (MapClick \/ MouseMove \/ MapDrag \/ MapDblClick \/ InfoPanelClose
              \/ LayerChooserToggle \/ StyleImageMissing \/ LoadImageResolved
              \/ LoadImageRejected)
            => RenderingState' = RenderingState
       /\ (mapLoaded /\ RenderingState' # RenderingState)
            => \/ \E i \in 1..Len(BackgroundLayerIds) :
                     handleBackgroundLayerChange(BackgroundLayerIds[i])
               \/ \E i \in 1..Len(DataLayerIds) : \E visible \in BOOLEAN :
                     handleDataLayerToggle(DataLayerIds[i], visible)]_vars

\* After load a feature was clicked with the pointer over it and an icon was
\* registered, and the layers, limits and selections are those of startup.
C31_Witness ==
    /\ mapLoaded
    /\ infoPanelVisible
    /\ cursor = "pointer"
    /\ mapImages # {}
    /\ layoutVisibility = StyleVisibility(config)
    /\ selectedBackgroundLayer = DefaultBackground(config)
    /\ visibleDataLayers = InitialVisibleData(config)

\* C32: the startup sets selectedBackgroundLayer to the first entry of
\* customUi.backgroundLayers whose id names a layer of config.layers that the
\* raw configuration does not hide, and the map's load handler gives the engine
\* the zoom limits resolved for the source of that background.
StartupBackgroundIs(cfg, b) ==
    LET bgs == cfg.customUi.backgroundLayers
        Marked(l) == l \in DOMAIN cfg.layers /\ cfg.layers[l].visibility # "none"
    IN  \E i \in 1..Len(bgs) :
           /\ bgs[i] = b
           /\ Marked(bgs[i])
           /\ \A j \in 1..(i - 1) : ~Marked(bgs[j])

C32_StartupBackgroundAndLimits ==
    [][/\ ConfigFetched
            => \A b \in SeqToSet(config'.customUi.backgroundLayers) :
                  StartupBackgroundIs(config', b) => selectedBackgroundLayer' = b
       /\ onMapLoad
            => \A b \in ConfiguredBackgrounds :
                  StartupBackgroundIs(config, b)
                     => /\ mapMinZoom' = ExpectedRange(b).minZoom
                        /\ mapMaxZoom' = ExpectedRange(b).maxZoom]_vars

\* bg1 is hidden by the configuration and bg2 is not: after load bg2 is the
\* active background and the engine has the limits of bg2's source.
C32_Witness ==
    /\ mapLoaded
    /\ config.layers["bg1"].visibility = "none"
    /\ config.layers["bg2"].visibility = "visible"
    /\ selectedBackgroundLayer = "bg2"
    /\ mapMinZoom = 1
    /\ mapMaxZoom = 2

\* C33: when the startup completes, a data layer whose layerIds all name
\* layers the raw configuration does not hide is in visibleDataLayers, and a
\* data layer none of whose layerIds names such a layer (they are hidden, or
\* name no layer of config.layers) is not.
C33_InitialDataLayersFollowConfig ==
    [][(ConfigFetched /\ error' = "")
          => \A k \in 1..Len(config'.customUi.dataLayers) :
                LET d == config'.customUi.dataLayers[k]
                    ids == SeqToSet(d.layerIds)
                    Shown(l) == /\ l \in DOMAIN config'.layers
                                /\ config'.layers[l].visibility # "none"
                IN  /\ (ids # {} /\ \A l \in ids : Shown(l))
                          => d.id \in visibleDataLayers'
                    /\ (\A l \in ids : ~Shown(l)) => d.id \notin visibleDataLayers']_vars

\* The startup completed with pois in the set and trails, which names only a
\* layer the style lacks, out of it.
C33_Witness ==
    /\ configFetch = "ok"
    /\ error = ""
    /\ config # NoConfig
    /\ visibleDataLayers = {"pois"}
    /\ \E k \in 1..Len(config.customUi.dataLayers) :
          /\ config.customUi.dataLayers[k].id = "trails"
          /\ config.customUi.dataLayers[k].layerIds = <<"ghost-line">>

\* C34: a missing-image notification starts a load only for an id that
\* customImageResources lists with a url and that is not registered, and then
\* exactly one; for any other id it starts none; in either case the
\* notification itself registers nothing and reports no error.
ListedWithUrl(id) ==
    /\ "customImageResources" \in DOMAIN config
    /\ \E i \in 1..Len(config.customImageResources) :
          /\ config.customImageResources[i].id = id
          /\ config.customImageResources[i].url # ""

C34_FetchOnlyWhenListedAndAbsent ==
    [][StyleImageMissing
          => /\ \A id \in ImageIds :
                   IF ListedWithUrl(id) /\ ~(\E img \in mapImages : img.id = id)
                   THEN /\ loadImageCalls'[id] \in {loadImageCalls[id],
                                                     loadImageCalls[id] + 1}
                        /\ inFlight'[id] - inFlight[id]
                              = loadImageCalls'[id] - loadImageCalls[id]
                   ELSE /\ loadImageCalls'[id] = loadImageCalls[id]
                        /\ inFlight'[id] = inFlight[id]
             /\ mapImages' = mapImages
             /\ addImageCalls' = addImageCalls
             /\ loadErrors' = loadErrors]_vars

\* peak was loaded once and registered; nothing was ever loaded for the id
\* without url or the unknown id, and no error was reported.
C34_Witness ==
    /\ \E img \in mapImages : img.id = "peak"
    /\ loadImageCalls["peak"] = 1
    /\ loadImageCalls["nourl"] = 0
    /\ loadImageCalls["ghost"] = 0
    /\ \A id \in ImageIds : loadErrors[id] = 0

\* C35: when a load started for a missing image resolves, the id is registered
\* after that step with the pixelRatio its resource entry configures (1 when it
\* configures none), and every load in flight leads to the id being registered
\* so or to a reported load error, however the other events interleave.
ConfiguredRatio(id) ==
    LET res == config.customImageResources
        i == CHOOSE k \in 1..Len(res) : res[k].id = id
    IN  IF res[i].pixelRatio = Undef THEN 1 ELSE res[i].pixelRatio

RegisteredAsConfigured(id) ==
    /\ ListedWithUrl(id)
    /\ [id |-> id, pixelRatio |-> ConfiguredRatio(id)] \in mapImages
    /\ \A img \in mapImages : img.id = id => img.pixelRatio = ConfiguredRatio(id)

C35_LoadedImageRegistered ==
    /\ [][\A id \in ImageIds :
             (LoadImageResolved /\ inFlight'[id] < inFlight[id])
                => RegisteredAsConfigured(id)']_vars
    /\ \A id \in ImageIds :
          (inFlight[id] > 0) ~> (RegisteredAsConfigured(id) \/ loadErrors[id] > 0)

\* hut, which configures no pixelRatio, is registered with ratio 1 after two
\* loads of it were started, while a load of peak failed.
C35_Witness ==
    /\ [id |-> "hut", pixelRatio |-> 1] \in mapImages
    /\ loadImageCalls["hut"] = 2
    /\ inFlight["hut"] = 0
    /\ loadErrors["peak"] > 0

\* C36: until the swap-back the engine's icon-image of a layer is the
\* placeholder id exactly for the layers whose configured icon-image is an id
\* of customImageResources, and the configured value for every other layer;
\* after the swap-back every layer's icon-image is the configured one again.
ListedIconIds ==
    {id \in ImageIds \cup {"marker"} :
        \E i \in 1..Len(config.customImageResources) :
            config.customImageResources[i].id = id}

C36_RewriteThenRestoreIsIdentity ==
    IF iconsSwapped
    THEN \A l \in StyleLayerIds : layerIcon[l] = config.iconImage[l]
    ELSE \A l \in StyleLayerIds :
            layerIcon[l] = IF config.iconImage[l] \in ListedIconIds
                           THEN PLACEHOLDER_ID ELSE config.iconImage[l]

\* Two layers were rewritten and restored (hut and peak), none uses an icon
\* outside the table, and all loads succeeded.
C36_Witness ==
    /\ iconsSwapped
    /\ config.iconImage["pois-symbol"] = "hut"
    /\ config.iconImage["trails-line"] = "peak"
    /\ layerIcon["pois-symbol"] = "hut"
    /\ layerIcon["trails-line"] = "peak"
    /\ \A id \in ImageIds : loadErrors[id] = 0

\* C37: once an auto-fit has completed without error, the bounds handed to
\* fitBounds cover the features of every geojson source of the configuration,
\* the sources whose data is a URL and those whose data is given inline.
C37_InlineSourcesContribute ==
    LET geojson == {s \in SourceNames : config.sourceKind[s] \in {"url", "inline"}}
    IN  (/\ mapLoaded /\ ~fitPending /\ AutoFit(config) /\ fitErrors = 0
         /\ \A s \in geojson : geojsonAt[s] # 0)
           => \A s \in geojson :
                 LET own == ExtendDocuments(EmptyBounds, <<geojsonAt[s]>>)
                 IN  ~own.empty
                        => /\ fitBoundsCalls # << >>
                           /\ \A k \in 1..Len(fitBoundsCalls) :
                                 Covers(fitBoundsCalls[k], own)

\* C38: in fitMapToBounds a geojson source whose document the engine already
\* holds is never fetched; a URL is fetched only for a string-data geojson
\* source the engine does not hold, and at most once per source.
C38_ResidentSourcesNotFetched ==
    \A s \in SourceNames :
        /\ fetchCalls[s] <= 1
        /\ s \in resident => fetchCalls[s] = 0
        /\ fetchCalls[s] > 0 => config.sourceKind[s] = "url" /\ s \notin resident
        /\ (mapLoaded /\ AutoFit(config) /\ config.sourceKind[s] = "url"
               /\ s \notin resident) => fetchCalls[s] = 1

\* An auto-fit started with one source resident and the other one fetched.
C38_Witness ==
    /\ mapLoaded
    /\ "trails-src" \in resident
    /\ fetchCalls["trails-src"] = 0
    /\ config.sourceKind["pois-src"] = "url"
    /\ fetchCalls["pois-src"] = 1

\* C39: the shown record's image aspect is [W, H] exactly when the clicked
\* feature's imageSize is a string that splits on commas into exactly two
\* parts which both parse as integers; otherwise (absent, not a string, one or
\* three parts, a part that does not parse) the aspect is undefined, and in
\* every case title, description and imageUrl are shown as the feature has them.
ParsesAsInteger(part) ==
    LET blank == {i \in 1..Len(part) : part[i] # " "}
    IN  /\ blank # {}
        /\ LET i == CHOOSE k \in blank : \A j \in blank : k <= j
           IN  \/ IsDigit(part[i])
               \/ /\ part[i] \in {"-", "+"}
                  /\ i < Len(part)
                  /\ IsDigit(part[i + 1])

ExpectedAspect(properties) ==
    IF "imageSize" \notin DOMAIN properties THEN <<>>
    ELSE IF properties.imageSize.type # "string" THEN <<>>
    ELSE LET chars == properties.imageSize.chars
             commas == {i \in 1..Len(chars) : chars[i] = ","}
         IN  IF Cardinality(commas) # 1 THEN <<>>
             ELSE LET c == CHOOSE i \in commas : TRUE
                      w == SubSeq(chars, 1, c - 1)
                      h == SubSeq(chars, c + 1, Len(chars))
                  IN  IF ParsesAsInteger(w) /\ ParsesAsInteger(h)
                      THEN <<parseInt(w).n, parseInt(h).n>>
                      ELSE <<>>

C39_AspectOnlyFromTwoIntegers ==
    /\ [](featureProperties # NoFeature
            => /\ infoPanelData.imageSize = ExpectedAspect(featureProperties)
               /\ infoPanelData.title = Prop(featureProperties, "title")
               /\ infoPanelData.description = Prop(featureProperties, "description")
               /\ infoPanelData.imageUrl = Prop(featureProperties, "imageUrl"))
    /\ [][featureProperties' # featureProperties => infoPanelVisible']_vars

\* A record with aspect [4, 3] is shown.
C39_Witness ==
    /\ infoPanelVisible
    /\ featureProperties # NoFeature
    /\ "imageSize" \in DOMAIN featureProperties
    /\ featureProperties.imageSize = Str(<<" ", "4", " ", ",", "3", " ">>)
    /\ infoPanelData.imageSize = <<4, 3>>
    /\ infoPanelData.imageUrl = "summit.jpg"

====
